---- MODULE Spec2Model ----
(***************************************************************************)
(* Version and file-lifecycle subsystem of the LSM engine:                 *)
(*   - VersionBuilder::Rep  (db/version_builder.cc)                        *)
(*   - obsolete-file discovery and purge, 2PC log retention                *)
(*     (db/db_impl_files.cc)                                               *)
(* Keys and sequence numbers are integers ordered by <, which stands for   *)
(* the internal key comparator.  A FileMetaData record is identified by    *)
(* its address: <<-1, n>> is the record of file n owned by the base        *)
(* version, <<l, n>> the copy the builder allocates when an edit adds      *)
(* file n on level l.                                                      *)
(***************************************************************************)
EXTENDS Integers, Sequences, FiniteSets, TLC

\* ------------------------------------------------------------ bounds
num_levels_ == 2
MaxFile == 4
MaxBaseFile == 2
MaxBaseSlices == 2
MaxEdits == 2
MaxThreshold == 2
DefaultMergeThreshold == 5
MaxLog == 3
MaxPrep == 2
NumCF == 2
MaxTables == 2
MaxThreads == 2
MaxNewFiles == 1
MaxSaves == 2
start_level == 1

Numbers == 1..MaxFile
Workers == 1..MaxThreads
Levels == 0..(num_levels_ - 1)
InvalidLevel == num_levels_
EditLevels == 0..num_levels_

MaxNow == 4
MaxPeriod == 2

MaxWal == 5
MaxWalSize == 2

MaxSyncs == 2

MaxInfoLogs == 3

MaxUserKey == 2
MaxSeq == 2

\* ------------------------------------------------- FileMetaData (static part)
\* The files an edit can name.  File 3 touches file 1 at key 5 and overlaps
\* file 2; files 1 and 4 are ingested files sharing seqno 2; the seqno range
\* of file 3 encloses that of file 2; files beyond 4 are ingested with seqno 0.
smallest(n) ==
  CASE n = 1 -> 1 [] n = 2 -> 6 [] n = 3 -> 5 [] OTHER -> 5 * n - 9

largest(n) ==
  CASE n = 1 -> 5 [] n = 2 -> 10 [] n = 3 -> 9 [] OTHER -> 5 * n - 5

smallest_seqno(n) ==
  CASE n = 1 -> 2 [] n = 2 -> 3 [] n = 3 -> 1 [] n = 4 -> 2 [] OTHER -> 0

largest_seqno(n) ==
  CASE n = 1 -> 2 [] n = 2 -> 4 [] n = 3 -> 5 [] n = 4 -> 2 [] OTHER -> 0

BaseId(n) == <<-1, n>>
NewId(l, n) == <<l, n>>
Num(f) == f[2]
FrozenParent == MaxBaseFile + 1
BaseIds == {BaseId(n) : n \in 1..FrozenParent}
AllIds == BaseIds \cup {NewId(l, n) : l \in Levels, n \in Numbers}

FileSlice(p, out) ==
  [parent_file_meta |-> p, output_file_number |-> out,
   smallest |-> smallest(Num(p)), largest |-> largest(Num(p)),
   is_contain_smallest |-> TRUE]

MergeTask(level, f) ==
  [level |-> level, smallest |-> smallest(Num(f)), largest |-> largest(Num(f))]

\* ------------------------------------------------------------ state
VARIABLES
  ndebug,                    \* the build defines NDEBUG
  force_consistency_checks,  \* VersionStorageInfo::force_consistency_checks()
  merge_threshold,           \* mutable_cf_options.compaction_options_2pc
  base_vstorage_,            \* [files: level -> sequence, frozen: set]
  fmeta,                     \* heap: address -> mutable FileMetaData fields
  levels_,                   \* level -> LevelState
  invalid_levels_,           \* invalid level -> set of file numbers
  has_invalid_levels_,
  vstorage,                  \* the snapshot SaveTo fills
  merge_tasks,               \* super_version_->merge_tasks->tasks
  leaked,                    \* records dropped from added_files without unref
  status,                    \* "open", "saved", "aborted"
  abort_reason,
  applied,                   \* the edits passed to Apply, in order
  table_reader_handle,       \* address -> the record holds a cache handle
  table_cache_,              \* address -> handles the cache has not got back
  unref_log,                 \* one entry per UnrefFile call of the builder
  load_pc,                   \* LoadTableHandlers: "idle", "running", "done"
  files_meta,                \* its vector of staged records
  next_file_meta_idx,        \* its shared atomic index
  threads,                   \* worker -> [pc, file_idx]
  opened,                    \* index of files_meta -> FindTable calls made
  saved_versions             \* SaveTo calls of the builder that were made

bvars == <<ndebug, force_consistency_checks, merge_threshold, base_vstorage_,
           fmeta, levels_, invalid_levels_, has_invalid_levels_, vstorage,
           merge_tasks, leaked, status, abort_reason, applied,
           table_reader_handle, table_cache_, unref_log, load_pc, files_meta,
           next_file_meta_idx, threads, opened, saved_versions>>

\* Two-phase-commit log retention (db/db_impl_files.cc 22-132)
VARIABLES
  allow_2pc,
  min_log_with_prep_,           \* min-heap of log numbers, smallest first
  prepared_section_completed_,  \* log number -> count, -1 when no entry
  cfds,                         \* column family -> [dropped, mem, imm]
  versions_min_log,             \* versions_->MinLogNumber()
  cur_log,                      \* number of the WAL being written
  committing,                   \* log -> commits that reached the memtable
                                \* but have not yet marked the log
  keep,                         \* the running MinLogNumberToKeep call
  outstanding_prep              \* log -> Containing marks minus Flushed marks

pvars == <<allow_2pc, min_log_with_prep_, prepared_section_completed_, cfds,
           versions_min_log, cur_log, committing, keep, outstanding_prep>>

\* Obsolete-file resolution (db/db_impl_files.cc 143-551)
VARIABLES
  disable_delete_obsolete_files_,
  delete_obsolete_files_period_micros,
  delete_obsolete_files_last_run_,
  now_micros,                    \* env_->NowMicros()
  pending_outputs_,              \* file numbers held by running jobs
  obsolete_files_,               \* version set: table files whose metadata died
  obsolete_manifests_,           \* version set: manifests replaced by a roll
  manifest_file_number,
  pending_manifest_file_number,
  prev_log_number,
  live_files,                    \* numbers listed in a level of a live version
  frozen_files,                  \* numbers in the frozen set of a live version
  dir,                           \* names in the db directory
  alive_log_files_,              \* deque of [number, size], oldest first
  logs_,                         \* deque of [number, getting_synced]
  log_recycle_files,
  total_log_size_,
  logs_to_free_,
  recycle_log_file_num,
  wal_archive,                   \* wal_ttl_seconds > 0 || wal_size_limit_mb > 0
  keep_log_file_num,
  job_context,
  purge_pc,                      \* "idle", "waiting", "found", "purged"
  deleted,                       \* names the last purge removed
  scheduled,                     \* names the last purge queued for removal
  archived,                      \* logs the last purge handed to the archive
  gathered,                      \* what the db held when the context was filled
  next_file_number_,             \* version set: the next file number to hand out
  syncs_started                  \* WAL syncs begun so far

fvars == <<disable_delete_obsolete_files_, delete_obsolete_files_period_micros,
           delete_obsolete_files_last_run_, now_micros, pending_outputs_,
           obsolete_files_, obsolete_manifests_, manifest_file_number,
           pending_manifest_file_number, prev_log_number, live_files,
           frozen_files, dir, alive_log_files_, logs_, log_recycle_files,
           total_log_size_, logs_to_free_, recycle_log_file_num, wal_archive,
           keep_log_file_num, job_context, purge_pc, deleted, scheduled,
           archived, gathered, next_file_number_,
                 syncs_started>>

\* A FileSliceIterator over its parent file (table/file_slice_iterator.h 41-44)
VARIABLES
  file_keys,      \* the internal keys of the parent file, in file order
  file_slice_,    \* [smallest, largest, is_contain_smallest]
  file_iter_,     \* index into file_keys; 0 and Len + 1 are not valid
  iter_pc,        \* "new", "constructed", "done", "aborted"
  visited         \* the keys the traversal read, in the order read

ivars == <<file_keys, file_slice_, file_iter_, iter_pc, visited>>

vars == <<bvars, pvars, fvars, ivars>>

\* ------------------------------------------------------------ comparators
NewestFirstBySeqNo(a, b) ==
  IF largest_seqno(Num(a)) # largest_seqno(Num(b))
  THEN largest_seqno(Num(a)) > largest_seqno(Num(b))
  ELSE IF smallest_seqno(Num(a)) # smallest_seqno(Num(b))
  THEN smallest_seqno(Num(a)) > smallest_seqno(Num(b))
  ELSE Num(a) > Num(b)

BySmallestKey(a, b) ==
  IF smallest(Num(a)) # smallest(Num(b))
  THEN smallest(Num(a)) < smallest(Num(b))
  ELSE Num(a) < Num(b)

FileComparator(level, f1, f2) ==
  IF level = 0 THEN NewestFirstBySeqNo(f1, f2) ELSE BySmallestKey(f1, f2)

\* ------------------------------------------------------------ helpers
Range(s) == {s[i] : i \in 1..Len(s)}

RECURSIVE SortFiles(_, _)
SortFiles(S, level) ==
  IF S = {} THEN <<>>
  ELSE LET m == CHOOSE x \in S : \A y \in S \ {x} : FileComparator(level, x, y)
       IN <<m>> \o SortFiles(S \ {m}, level)

RECURSIVE Repeat(_, _)
Repeat(x, k) == IF k = 0 THEN <<>> ELSE <<x>> \o Repeat(x, k - 1)

EmptyLevelState ==
  [deleted_files |-> {}, added_files |-> {},
   added_file_slices |-> <<>>, added_frozen_files |-> {}]

NoFile == [refs |-> 0, slice_refs |-> 0, file_slices |-> <<>>, allocated |-> FALSE]

\* ------------------------------------------------------------ build mode
\* #ifdef NDEBUG ... force_consistency_checks(): version_builder.cc 151-157
ChecksRun == (~ndebug) \/ force_consistency_checks

\* assert(...) is compiled only when NDEBUG is not defined
AssertsOn == ~ndebug

\* ------------------------------------------------------------ UnrefFile
\* Mutant: the record is freed with its handle still held.
UnrefFile_KeepsHandle(b, f) ==
  LET free == b.meta[f].refs - 1 <= 0
  IN [b EXCEPT
       !.meta[f] = IF free THEN NoFile ELSE [@ EXCEPT !.refs = @ - 1],
       !.unrefs = @ \cup {[f |-> f, at |-> Cardinality(b.unrefs) + 1,
                           allocated |-> b.meta[f].allocated,
                           refs |-> b.meta[f].refs - 1,
                           slice_refs |-> b.meta[f].slice_refs,
                           handle |-> b.handle[f],
                           released |-> FALSE, freed |-> free]}]

\* Mutant: the record is freed while one reference is left.
UnrefFile_FreesEarly(b, f) ==
  LET free == b.meta[f].refs - 1 <= 1
      release == free /\ b.handle[f]
  IN [b EXCEPT
       !.meta[f] = IF free THEN NoFile ELSE [@ EXCEPT !.refs = @ - 1],
       !.handle[f] = IF release THEN FALSE ELSE @,
       !.cache[f] = IF release THEN @ - 1 ELSE @,
       !.unrefs = @ \cup {[f |-> f, at |-> Cardinality(b.unrefs) + 1,
                           allocated |-> b.meta[f].allocated,
                           refs |-> b.meta[f].refs - 1,
                           slice_refs |-> b.meta[f].slice_refs,
                           handle |-> b.handle[f],
                           released |-> release, freed |-> free]}]

\* lines 138-148, on the staging area b; the entry added to b.unrefs records
\* what the call found and what it did
UnrefFile(b, f) ==
  LET free == b.meta[f].refs - 1 <= 0
      release == free /\ b.handle[f]
  IN [b EXCEPT
       !.meta[f] = IF free THEN NoFile ELSE [@ EXCEPT !.refs = @ - 1],
       !.handle[f] = IF release THEN FALSE ELSE @,
       !.cache[f] = IF release THEN @ - 1 ELSE @,
       !.unrefs = @ \cup {[f |-> f, at |-> Cardinality(b.unrefs) + 1,
                           allocated |-> b.meta[f].allocated,
                           refs |-> b.meta[f].refs - 1,
                           slice_refs |-> b.meta[f].slice_refs,
                           handle |-> b.handle[f],
                           released |-> release, freed |-> free]}]

\* ------------------------------------------------------------ CheckConsistency
\* Mutant: the overlap test of levels > 0 lets touching files pass (> for >=).
PairAborts_TouchingPasses(level, f1, f2) ==
  IF level = 0
  THEN \/ ~NewestFirstBySeqNo(f1, f2)
       \/ IF smallest_seqno(Num(f2)) = largest_seqno(Num(f2))
          THEN ~(\/ smallest_seqno(Num(f2)) < largest_seqno(Num(f1))
                 \/ smallest_seqno(Num(f2)) = 0)
          ELSE smallest_seqno(Num(f1)) <= smallest_seqno(Num(f2))
  ELSE \/ ~BySmallestKey(f1, f2)
       \/ largest(Num(f1)) > smallest(Num(f2))

\* Mutant: level 0 is only checked for its sort order, not for the seqno rule.
PairAborts_NoSeqnoRule(level, f1, f2) ==
  IF level = 0
  THEN ~NewestFirstBySeqNo(f1, f2)
  ELSE \/ ~BySmallestKey(f1, f2)
       \/ largest(Num(f1)) >= smallest(Num(f2))

\* TRUE when the pair (f1 listed right before f2) makes CheckConsistency abort.
PairAborts(level, f1, f2) ==
  IF level = 0
  THEN \/ ~NewestFirstBySeqNo(f1, f2)
       \/ IF smallest_seqno(Num(f2)) = largest_seqno(Num(f2))
          THEN ~(\/ smallest_seqno(Num(f2)) < largest_seqno(Num(f1))
                 \/ smallest_seqno(Num(f2)) = 0)
          ELSE smallest_seqno(Num(f1)) <= smallest_seqno(Num(f2))
  ELSE \/ ~BySmallestKey(f1, f2)
       \/ largest(Num(f1)) >= smallest(Num(f2))

\* TRUE when CheckConsistency(vs) returns; FALSE when it aborts.
CheckConsistency(vs) ==
  \/ ~ChecksRun
  \/ \A level \in Levels : \A i \in 2..Len(vs.files[level]) :
        ~PairAborts(level, vs.files[level][i - 1], vs.files[level][i])

\* Mutant: the added files of the higher levels are not looked at.
CheckConsistencyForDeletes_SameLevelOnly(lv, number, level) ==
  \/ ~ChecksRun
  \/ \E l \in Levels : \E i \in 1..Len(base_vstorage_.files[l]) :
        Num(base_vstorage_.files[l][i]) = number
  \/ number \in lv[level].added_files

\* Mutant: only the flag is looked at, not what the invalid levels hold.
CheckConsistencyForNumLevels_FlagOnly == ~has_invalid_levels_

\* TRUE when CheckConsistencyForDeletes(edit, number, level) returns.
CheckConsistencyForDeletes(lv, number, level) ==
  \/ ~ChecksRun
  \/ \E l \in Levels : \E i \in 1..Len(base_vstorage_.files[l]) :
        Num(base_vstorage_.files[l][i]) = number
  \/ \E l \in Levels : l > level /\ number \in lv[l].added_files
  \/ number \in lv[level].added_files

\* lines 256-267
CheckConsistencyForNumLevels ==
  /\ ~has_invalid_levels_
  /\ \A l \in DOMAIN invalid_levels_ : invalid_levels_[l] = {}

\* ------------------------------------------------------------ Apply
\* The builder's staging area while one Apply runs.
Staging ==
  [levels |-> levels_, inv |-> invalid_levels_, has_inv |-> has_invalid_levels_,
   meta |-> fmeta, leaked |-> leaked, abort |-> "none",
   handle |-> table_reader_handle, cache |-> table_cache_,
   unrefs |-> unref_log]

\* lines 273-285
RECURSIVE ApplyMoved(_, _)
ApplyMoved(b, mov) ==
  IF mov = <<>> THEN b
  ELSE LET level == Head(mov)[1]
           f == Head(mov)[2]
           b1 == IF level < num_levels_
                 THEN [b EXCEPT !.levels[level].added_frozen_files = @ \cup {f}]
                 ELSE b
       IN ApplyMoved(b1, Tail(mov))

\* lines 287-299
RECURSIVE ApplySlices(_, _)
ApplySlices(b, sl) ==
  IF sl = <<>> THEN b
  ELSE LET level == Head(sl)[1]
           b1 == IF level < num_levels_
                 THEN [b EXCEPT !.levels[level].added_file_slices =
                                   Append(@, Head(sl)[2])]
                 ELSE b
       IN ApplySlices(b1, Tail(sl))

\* Mutant: the level guard is inverted, a deletion on a valid level is booked
\* as one on an invalid level.
DeleteFile_InvertedGuard(b, level, number) ==
  IF level < num_levels_
  THEN [b EXCEPT !.has_inv = TRUE]
  ELSE [b EXCEPT !.levels = b.levels]

\* lines 304-323, one element of the deleted-file set
DeleteFile(b, level, number) ==
  IF level < num_levels_
  THEN LET lv1 == [b.levels EXCEPT ![level].deleted_files = @ \cup {number}]
       IN IF ~CheckConsistencyForDeletes(lv1, number, level)
          THEN [b EXCEPT !.levels = lv1, !.abort = "delete: not found"]
          ELSE IF number \in lv1[level].added_files
          THEN [UnrefFile(b, NewId(level, number)) EXCEPT
                  !.levels = [lv1 EXCEPT ![level].added_files = @ \ {number}]]
          ELSE [b EXCEPT !.levels = lv1]
  ELSE IF number \in b.inv[level]
  THEN [b EXCEPT !.inv[level] = @ \ {number}]
  ELSE [b EXCEPT !.has_inv = TRUE]

\* DeletedFileSet is a std::set of (level, number): iterated in ascending order
PairLess(p, q) == p[1] < q[1] \/ (p[1] = q[1] /\ p[2] < q[2])

RECURSIVE ApplyDeletes(_, _)
ApplyDeletes(b, del) ==
  IF del = {} \/ b.abort # "none" THEN b
  ELSE LET d == CHOOSE x \in del : \A y \in del \ {x} : PairLess(x, y)
       IN ApplyDeletes(DeleteFile(b, d[1], d[2]), del \ {d})

\* Mutant: the duplicate-add assertion is missing.
AddNewFile_NoAssert(b, level, number) ==
  IF level < num_levels_
  THEN [b EXCEPT
         !.levels[level].deleted_files = @ \ {number},
         !.levels[level].added_files = @ \cup {number},
         !.leaked = IF number \in b.levels[level].added_files
                    THEN @ + 1 ELSE @,
         !.meta[NewId(level, number)] =
            [refs |-> 1, slice_refs |-> 0, file_slices |-> <<>>,
             allocated |-> TRUE],
         !.handle[NewId(level, number)] = FALSE]
  ELSE IF number \notin b.inv[level]
  THEN [b EXCEPT !.inv[level] = @ \cup {number}]
  ELSE [b EXCEPT !.has_inv = TRUE]

\* Mutant: a new file stays in deleted_files of its level.
AddNewFile_KeepsDeleted(b, level, number) ==
  IF level < num_levels_
  THEN IF AssertsOn /\ number \in b.levels[level].added_files
       THEN [b EXCEPT !.abort = "assert: duplicate add"]
       ELSE [b EXCEPT
              !.levels[level].added_files = @ \cup {number},
              !.leaked = IF number \in b.levels[level].added_files
                         THEN @ + 1 ELSE @,
              !.meta[NewId(level, number)] =
                 [refs |-> 1, slice_refs |-> 0, file_slices |-> <<>>,
                  allocated |-> TRUE],
              !.handle[NewId(level, number)] = FALSE]
  ELSE IF number \notin b.inv[level]
  THEN [b EXCEPT !.inv[level] = @ \cup {number}]
  ELSE [b EXCEPT !.has_inv = TRUE]

\* lines 328-345, one new file. The record is a copy of the edit's and holds
\* no handle; a record it replaces in added_files keeps the handle it has,
\* which table_cache_ goes on counting.
AddNewFile(b, level, number) ==
  IF level < num_levels_
  THEN IF AssertsOn /\ number \in b.levels[level].added_files
       THEN [b EXCEPT !.abort = "assert: duplicate add"]
       ELSE [b EXCEPT
              !.levels[level].deleted_files = @ \ {number},
              !.levels[level].added_files = @ \cup {number},
              !.leaked = IF number \in b.levels[level].added_files
                         THEN @ + 1 ELSE @,
              !.meta[NewId(level, number)] =
                 [refs |-> 1, slice_refs |-> 0, file_slices |-> <<>>,
                  allocated |-> TRUE],
              !.handle[NewId(level, number)] = FALSE]
  ELSE IF number \notin b.inv[level]
  THEN [b EXCEPT !.inv[level] = @ \cup {number}]
  ELSE [b EXCEPT !.has_inv = TRUE]

RECURSIVE ApplyAdds(_, _)
ApplyAdds(b, add) ==
  IF add = <<>> \/ b.abort # "none" THEN b
  ELSE ApplyAdds(AddNewFile(b, Head(add)[1], Head(add)[2]), Tail(add))

\* Mutant: the new files of an edit are staged before its deletions.
ApplyResult_AddsFirst(edit) ==
  IF ~CheckConsistency(base_vstorage_)
  THEN [Staging EXCEPT !.abort = "base inconsistent"]
  ELSE ApplyDeletes(ApplyAdds(ApplySlices(ApplyMoved(Staging, edit.moved),
                                          edit.slices),
                              edit.added),
                    edit.deleted)

\* Apply(edit): lines 270-347
ApplyResult(edit) ==
  IF ~CheckConsistency(base_vstorage_)
  THEN [Staging EXCEPT !.abort = "base inconsistent"]
  ELSE ApplyAdds(ApplyDeletes(ApplySlices(ApplyMoved(Staging, edit.moved),
                                          edit.slices),
                              edit.deleted),
                 edit.added)

Apply(edit) ==
  /\ status = "open"
  /\ load_pc # "running"
  /\ Len(applied) < MaxEdits
  /\ LET r == ApplyResult(edit)
     IN /\ levels_' = r.levels
        /\ table_reader_handle' = r.handle
        /\ table_cache_' = r.cache
        /\ unref_log' = r.unrefs
        /\ invalid_levels_' = r.inv
        /\ has_invalid_levels_' = r.has_inv
        /\ fmeta' = r.meta
        /\ leaked' = r.leaked
        /\ status' = IF r.abort = "none" THEN "open" ELSE "aborted"
        /\ abort_reason' = r.abort
  /\ applied' = Append(applied, edit)
  /\ UNCHANGED <<saved_versions, ndebug, force_consistency_checks,
                 merge_threshold,
                 base_vstorage_, vstorage, merge_tasks, load_pc, files_meta,
                 next_file_meta_idx, threads, opened>>

\* ------------------------------------------------------------ VersionStorageInfo
\* The snapshot under construction while SaveTo runs.
Saving(t) ==
  [files |-> vstorage.files, frozen |-> vstorage.frozen, meta |-> fmeta,
   tasks |-> merge_tasks, threshold |-> t, abort |-> "none"]

\* VersionStorageInfo::AddFile: the snapshot lists f and holds a reference
AddFile(s, level, f) ==
  [s EXCEPT !.files[level] = Append(@, f), !.meta[f].refs = @ + 1]

\* VersionStorageInfo::AddFrozenFile
AddFrozenFile(s, level, f) == [s EXCEPT !.frozen = @ \cup {f}]

\* VersionStorageInfo::AddFileSlice: f carries the slice, its parent is pinned
AddFileSlice(s, level, f, slice) ==
  [s EXCEPT !.meta[f].file_slices = Append(@, slice),
            !.meta[slice.parent_file_meta].slice_refs = @ + 1]

\* ------------------------------------------------------------ MaybeAddFile
\* lines 476-480
RECURSIVE DropSliceRefs(_, _)
DropSliceRefs(s, slices) ==
  IF slices = <<>> \/ s.abort # "none" THEN s
  ELSE LET p == Head(slices).parent_file_meta
           s1 == [s EXCEPT !.meta[p].slice_refs = @ - 1]
       IN IF AssertsOn /\ s1.meta[p].slice_refs < 0
          THEN [s1 EXCEPT !.abort = "assert: slice_refs >= 0"]
          ELSE DropSliceRefs(s1, Tail(slices))

\* lines 494-497
RECURSIVE AttachSlices(_, _, _, _)
AttachSlices(s, level, f, slices) ==
  IF slices = <<>> THEN s
  ELSE AttachSlices(IF Head(slices).output_file_number = Num(f)
                    THEN AddFileSlice(s, level, f, Head(slices))
                    ELSE s,
                    level, f, Tail(slices))

\* Mutant: the fan-out test is off by one.
EnqueueMergeTask_OffByOne(s, level, f, add_file_slices) ==
  IF add_file_slices /\ Len(s.meta[f].file_slices) > s.threshold + 1
  THEN [s EXCEPT !.tasks = @ \cup {MergeTask(level, f)}]
  ELSE s

\* lines 499-506
EnqueueMergeTask(s, level, f, add_file_slices) ==
  IF add_file_slices /\ Len(s.meta[f].file_slices) > s.threshold
  THEN [s EXCEPT !.tasks = @ \cup {MergeTask(level, f)}]
  ELSE s

\* Mutant: the record of a file the edits deleted is freed by SaveTo.
MaybeAddFile_FreesDeleted(s, level, f) ==
  IF Num(f) \in levels_[level].deleted_files
  THEN [DropSliceRefs(s, s.meta[f].file_slices) EXCEPT !.meta[f] = NoFile]
  ELSE IF f \in levels_[level].added_frozen_files
  THEN LET s1 == AddFrozenFile(s, level, f)
       IN IF AssertsOn /\ Len(s.meta[f].file_slices) # 0
          THEN [s1 EXCEPT !.abort = "assert: frozen file has slices"]
          ELSE s1
  ELSE LET s1 == AddFile(s, level, f)
           add_file_slices ==
             \E i \in 1..Len(levels_[level].added_file_slices) :
                levels_[level].added_file_slices[i].output_file_number = Num(f)
           s2 == AttachSlices(s1, level, f, levels_[level].added_file_slices)
       IN EnqueueMergeTask(s2, level, f, add_file_slices)

\* lines 472-509
MaybeAddFile(s, level, f) ==
  IF Num(f) \in levels_[level].deleted_files
  THEN DropSliceRefs(s, s.meta[f].file_slices)
  ELSE IF f \in levels_[level].added_frozen_files
  THEN LET s1 == AddFrozenFile(s, level, f)
       IN IF AssertsOn /\ Len(s.meta[f].file_slices) # 0
          THEN [s1 EXCEPT !.abort = "assert: frozen file has slices"]
          ELSE s1
  ELSE LET s1 == AddFile(s, level, f)
           add_file_slices ==
             \E i \in 1..Len(levels_[level].added_file_slices) :
                levels_[level].added_file_slices[i].output_file_number = Num(f)
           s2 == AttachSlices(s1, level, f, levels_[level].added_file_slices)
       IN EnqueueMergeTask(s2, level, f, add_file_slices)

\* ------------------------------------------------------------ SaveTo
\* Mutant: the added files are appended after the base files, not merged.
MergeOrder_Appends(base_files, added_files, level) == base_files \o added_files

\* lines 380-402: the order in which SaveTo hands files to MaybeAddFile.
\* upper_bound over the sorted base files is the first base file the added
\* file sorts before.
RECURSIVE MergeOrder(_, _, _)
MergeOrder(base_files, added_files, level) ==
  IF added_files = <<>> THEN base_files
  ELSE IF base_files # <<>>
          /\ ~FileComparator(level, Head(added_files), Head(base_files))
  THEN <<Head(base_files)>> \o MergeOrder(Tail(base_files), added_files, level)
  ELSE <<Head(added_files)>> \o MergeOrder(base_files, Tail(added_files), level)

RECURSIVE MaybeAddFiles(_, _, _)
MaybeAddFiles(s, level, order) ==
  IF order = <<>> \/ s.abort # "none" THEN s
  ELSE MaybeAddFiles(MaybeAddFile(s, level, Head(order)), level, Tail(order))

\* lines 354-409, one level
SaveLevel(s, level) ==
  LET added == SortFiles({NewId(level, n) : n \in levels_[level].added_files},
                         level)
      s1 == MaybeAddFiles(s, level,
                          MergeOrder(base_vstorage_.files[level], added, level))
  IN IF s1.abort # "none" THEN s1
     ELSE [s1 EXCEPT !.frozen = @ \cup levels_[level].added_frozen_files]

RECURSIVE SaveLevels(_, _)
SaveLevels(s, level) ==
  IF level >= num_levels_ \/ s.abort # "none" THEN s
  ELSE SaveLevels(SaveLevel(s, level), level + 1)

\* Mutant: every frozen file of the base is carried, pinned or not.
CarryFrozen_All(s) ==
  [s EXCEPT !.frozen = @ \cup base_vstorage_.frozen,
            !.meta = [f \in DOMAIN s.meta |->
                        IF f \in base_vstorage_.frozen
                        THEN [s.meta[f] EXCEPT !.refs = @ + 1]
                        ELSE s.meta[f]]]

\* lines 411-416
CarryFrozen(s) ==
  LET kept == {f \in base_vstorage_.frozen : s.meta[f].slice_refs > 0}
  IN [s EXCEPT !.frozen = @ \cup kept,
               !.meta = [f \in DOMAIN s.meta |->
                           IF f \in kept
                           THEN [s.meta[f] EXCEPT !.refs = @ + 1]
                           ELSE s.meta[f]]]

SaveResult(t) ==
  IF ~CheckConsistency(base_vstorage_) \/ ~CheckConsistency(vstorage)
  THEN [Saving(t) EXCEPT !.abort = "inconsistent before save"]
  ELSE LET s1 == SaveLevels(Saving(t), 0)
       IN IF s1.abort # "none" THEN s1
          ELSE LET s2 == CarryFrozen(s1)
               IN IF CheckConsistency(s2) THEN s2
                  ELSE [s2 EXCEPT !.abort = "inconsistent snapshot"]

\* t is the value of merge_threshold in force when SaveTo runs
SaveTo(t) ==
  /\ status = "open"
  /\ load_pc # "running"
  /\ LET r == SaveResult(t)
     IN /\ vstorage' = [files |-> r.files, frozen |-> r.frozen]
        /\ fmeta' = r.meta
        /\ merge_tasks' = r.tasks
        /\ status' = IF r.abort = "none" THEN "saved" ELSE "aborted"
        /\ abort_reason' = r.abort
  /\ merge_threshold' = t
  /\ saved_versions' = saved_versions + 1
  /\ UNCHANGED <<ndebug, force_consistency_checks, base_vstorage_, levels_,
                 invalid_levels_, has_invalid_levels_, leaked, applied,
                 table_reader_handle, table_cache_, unref_log, load_pc,
                 files_meta, next_file_meta_idx, threads, opened>>

\* The caller takes a new, empty VersionStorageInfo for the next SaveTo of
\* the builder; the snapshot saved before is a version of its own by then.
NewVersion ==
  /\ status = "saved"
  /\ saved_versions < MaxSaves
  /\ vstorage' = [files |-> [l \in Levels |-> <<>>], frozen |-> {}]
  /\ status' = "open"
  /\ UNCHANGED <<saved_versions, ndebug, force_consistency_checks,
                 merge_threshold,
                 base_vstorage_, fmeta, levels_, invalid_levels_,
                 has_invalid_levels_, merge_tasks, leaked, abort_reason,
                 applied, table_reader_handle, table_cache_, unref_log,
                 load_pc, files_meta, next_file_meta_idx, threads, opened>>

\* ------------------------------------------------------------ ~Rep
StagedFiles(lv) == {<<l, n>> \in Levels \X Numbers : n \in lv[l].added_files}

\* lines 128-134: the loops over every level's added_files
RECURSIVE UnrefAdded(_, _)
UnrefAdded(b, added) ==
  IF added = {} THEN b
  ELSE LET d == CHOOSE x \in added : \A y \in added \ {x} : PairLess(x, y)
       IN UnrefAdded(UnrefFile(b, NewId(d[1], d[2])), added \ {d})

\* lines 127-136; a process that aborted runs no destructor
Destroy ==
  /\ status \in {"open", "saved"}
  /\ load_pc # "running"
  /\ LET r == UnrefAdded(Staging, StagedFiles(levels_))
     IN /\ fmeta' = r.meta
        /\ table_reader_handle' = r.handle
        /\ table_cache_' = r.cache
        /\ unref_log' = r.unrefs
  /\ levels_' = [l \in Levels |-> EmptyLevelState]
  /\ status' = "destroyed"
  /\ UNCHANGED <<saved_versions, ndebug, force_consistency_checks,
                 merge_threshold,
                 base_vstorage_, invalid_levels_, has_invalid_levels_,
                 vstorage, merge_tasks, leaked, abort_reason, applied, load_pc,
                 files_meta, next_file_meta_idx, threads, opened>>

\* ------------------------------------------------------------ LoadTableHandlers
\* A worker is not started, about to fetch an index, about to open the file
\* of the index it fetched, or out of the loop.
NotStarted == [pc |-> "none", file_idx |-> 0]

\* lines 426-432: added_files of level 0, then level 1, ...; the order inside
\* one level is the hash map's, taken here as ascending
RECURSIVE CollectFilesMeta(_)
CollectFilesMeta(added) ==
  IF added = {} THEN <<>>
  ELSE LET d == CHOOSE x \in added : \A y \in added \ {x} : PairLess(x, y)
       IN <<NewId(d[1], d[2])>> \o CollectFilesMeta(added \ {d})

\* lines 421-434 and 457-463: with max_threads <= 1 the caller runs the loop
\* itself (worker 1), otherwise max_threads workers are started. The version
\* set loads the handlers of a builder once.
LoadTableHandlers(max_threads) ==
  /\ status = "open"
  /\ load_pc = "idle"
  /\ AssertsOn => \A d \in StagedFiles(levels_) :
                     ~table_reader_handle[NewId(d[1], d[2])]
  /\ load_pc' = "running"
  /\ files_meta' = CollectFilesMeta(StagedFiles(levels_))
  /\ next_file_meta_idx' = 0
  /\ threads' = [t \in Workers |->
                   IF t <= (IF max_threads <= 1 THEN 1 ELSE max_threads)
                   THEN [pc |-> "fetch", file_idx |-> 0] ELSE NotStarted]
  /\ opened' = [i \in 1..Len(files_meta') |-> 0]
  /\ UNCHANGED <<saved_versions, ndebug, force_consistency_checks,
                 merge_threshold,
                 base_vstorage_, fmeta, levels_, invalid_levels_,
                 has_invalid_levels_, vstorage, merge_tasks, leaked, status,
                 abort_reason, applied, table_reader_handle, table_cache_,
                 unref_log>>

\* lines 437-440: fetch_add(1) on the shared index, then the bound test
LoadFetch(t) ==
  /\ load_pc = "running"
  /\ threads[t].pc = "fetch"
  /\ next_file_meta_idx' = next_file_meta_idx + 1
  /\ threads' = [threads EXCEPT ![t] =
                   [pc |-> IF next_file_meta_idx >= Len(files_meta)
                           THEN "exit" ELSE "find",
                    file_idx |-> next_file_meta_idx]]
  /\ UNCHANGED <<saved_versions, ndebug, force_consistency_checks,
                 merge_threshold,
                 base_vstorage_, fmeta, levels_, invalid_levels_,
                 has_invalid_levels_, vstorage, merge_tasks, leaked, status,
                 abort_reason, applied, table_reader_handle, table_cache_,
                 unref_log, load_pc, files_meta, opened>>

\* lines 442-454: FindTable leaves a handle in the record when the open
\* succeeds (found) and nullptr when it fails; its status is not looked at
LoadFind(t, found) ==
  /\ load_pc = "running"
  /\ threads[t].pc = "find"
  /\ LET f == files_meta[threads[t].file_idx + 1]
     IN /\ table_reader_handle' = [table_reader_handle EXCEPT ![f] = found]
        /\ table_cache_' = [table_cache_ EXCEPT ![f] = IF found THEN @ + 1 ELSE @]
  /\ opened' = [opened EXCEPT ![threads[t].file_idx + 1] = @ + 1]
  /\ threads' = [threads EXCEPT ![t].pc = "fetch"]
  /\ UNCHANGED <<saved_versions, ndebug, force_consistency_checks,
                 merge_threshold,
                 base_vstorage_, fmeta, levels_, invalid_levels_,
                 has_invalid_levels_, vstorage, merge_tasks, leaked, status,
                 abort_reason, applied, unref_log, load_pc, files_meta,
                 next_file_meta_idx>>

\* Mutant: the caller goes on as soon as one worker is out of the loop.
Joined_AnyWorker(th) == \E t \in Workers : th[t].pc = "exit"

\* lines 457-467: the inline call has returned, or every thread is joined
Joined(th) == \A t \in Workers : th[t].pc \in {"none", "exit"}

\* line 469
LoadReturn ==
  /\ load_pc = "running"
  /\ Joined(threads)
  /\ load_pc' = "done"
  /\ UNCHANGED <<saved_versions, ndebug, force_consistency_checks,
                 merge_threshold,
                 base_vstorage_, fmeta, levels_, invalid_levels_,
                 has_invalid_levels_, vstorage, merge_tasks, leaked, status,
                 abort_reason, applied, table_reader_handle, table_cache_,
                 unref_log, files_meta, next_file_meta_idx, threads, opened>>

\* ------------------------------------------------------------ initial states
\* A base version: files 1..MaxBaseFile each absent (-1) or on a level; with
\* k > 0 the file FrozenParent is frozen and the carrier file holds k slices
\* of it.
BaseFiles(place) ==
  [l \in Levels |-> SortFiles({BaseId(n) : n \in {m \in 1..MaxBaseFile : place[m] = l}}, l)]

\* The base version was saved by an earlier builder: its levels are sorted,
\* level 0 obeys the seqno rule and levels > 0 do not overlap.
BasePairOk(l, f1, f2) ==
  IF l = 0
  THEN IF smallest_seqno(Num(f2)) = largest_seqno(Num(f2))
       THEN \/ smallest_seqno(Num(f2)) = 0
            \/ smallest_seqno(Num(f2)) < largest_seqno(Num(f1))
       ELSE smallest_seqno(Num(f1)) > smallest_seqno(Num(f2))
  ELSE largest(Num(f1)) < smallest(Num(f2))

BaseChoices ==
  {c \in [place : [1..MaxBaseFile -> {-1} \cup Levels],
          k : 0..MaxBaseSlices, carrier : 1..MaxBaseFile] :
     /\ c.k = 0 => c.carrier = 1
     /\ c.k > 0 => c.place[c.carrier] >= start_level
     /\ \A l \in Levels : \A i \in 2..Len(BaseFiles(c.place)[l]) :
           BasePairOk(l, BaseFiles(c.place)[l][i - 1], BaseFiles(c.place)[l][i])}

BaseMeta(c) ==
  [f \in AllIds |->
     IF f \in BaseIds /\ Num(f) <= MaxBaseFile /\ c.place[Num(f)] >= 0
     THEN [refs |-> 1, slice_refs |-> 0,
           file_slices |-> IF c.k > 0 /\ Num(f) = c.carrier
                           THEN Repeat(FileSlice(BaseId(FrozenParent), Num(f)), c.k)
                           ELSE <<>>,
           allocated |-> TRUE]
     ELSE IF f = BaseId(FrozenParent) /\ c.k > 0
     THEN [refs |-> 1, slice_refs |-> c.k, file_slices |-> <<>>,
           allocated |-> TRUE]
     ELSE NoFile]

\* lines 111-125: the builder right after construction over base version c
InitBuilder(c) ==
  /\ ndebug \in BOOLEAN
  /\ force_consistency_checks \in BOOLEAN
  /\ ~ndebug => ~force_consistency_checks
  /\ merge_threshold = DefaultMergeThreshold
  /\ base_vstorage_ = [files |-> BaseFiles(c.place),
                       frozen |-> IF c.k > 0 THEN {BaseId(FrozenParent)} ELSE {}]
  /\ fmeta = BaseMeta(c)
  /\ levels_ = [l \in Levels |-> EmptyLevelState]
  /\ invalid_levels_ = [l \in {InvalidLevel} |-> {}]
  /\ has_invalid_levels_ = FALSE
  /\ vstorage = [files |-> [l \in Levels |-> <<>>], frozen |-> {}]
  /\ merge_tasks = {}
  /\ leaked = 0
  /\ status = "open"
  /\ abort_reason = "none"
  /\ applied = <<>>
  /\ table_reader_handle = [f \in AllIds |-> FALSE]
  /\ table_cache_ = [f \in AllIds |-> 0]
  /\ unref_log = {}
  /\ load_pc = "idle"
  /\ files_meta = <<>>
  /\ next_file_meta_idx = 0
  /\ threads = [t \in Workers |-> NotStarted]
  /\ opened = <<>>
  /\ saved_versions = 0

\* ------------------------------------------------------------ edits
LiveBase == UNION {Range(base_vstorage_.files[l]) : l \in Levels}

BaseLevel(f) == CHOOSE l \in Levels : f \in Range(base_vstorage_.files[l])

NoEdit == [moved |-> <<>>, slices |-> <<>>, deleted |-> {}, added |-> <<>>]

DelEdit(l, n) == [NoEdit EXCEPT !.deleted = {<<l, n>>}]

AddEdit(l, n) == [NoEdit EXCEPT !.added = <<<<l, n>>>>]

MovEdit(l, f) == [NoEdit EXCEPT !.moved = <<<<l, f>>>>]

SliceEdit(l, p, out) == [NoEdit EXCEPT !.slices = <<<<l, FileSlice(p, out)>>>>]

SliceLevels == start_level..(num_levels_ - 1)

\* Edits of flushes and compactions: one deletion, one new file, one move to
\* the frozen region, or a deletion together with a new file of that number.
LevelEdits ==
  {DelEdit(l, n) : l \in Levels, n \in Numbers}
  \cup {AddEdit(l, n) : l \in Levels, n \in Numbers}
  \cup {MovEdit(l, f) : l \in Levels, f \in LiveBase}
  \cup {[DelEdit(l, n) EXCEPT !.added = <<<<l2, n>>>>] :
          l \in Levels, l2 \in Levels, n \in Numbers}

\* Edits of slice compactions: a move to frozen, a new slice, both for the
\* same parent, the deletion of a file, a new file, or the deletion of that
\* new file.
SliceEdits ==
  {MovEdit(BaseLevel(f), f) : f \in LiveBase}
  \cup {SliceEdit(l, p, out) : l \in SliceLevels,
                               p \in LiveBase \cup base_vstorage_.frozen,
                               out \in 1..FrozenParent}
  \cup {[MovEdit(BaseLevel(f), f) EXCEPT
           !.slices = <<<<l, FileSlice(f, out)>>>>] :
          l \in SliceLevels, f \in LiveBase, out \in 1..FrozenParent}
  \cup {DelEdit(BaseLevel(f), Num(f)) : f \in LiveBase}
  \cup {AddEdit(l, FrozenParent) : l \in SliceLevels}
  \cup {DelEdit(l, FrozenParent) : l \in SliceLevels}

\* Edits that name the level num_levels_: at most one deletion, and no new
\* file, one, the same one twice, or two.
InvalidEdits ==
  {[NoEdit EXCEPT !.deleted = del, !.added = add] :
     del \in {{}} \cup {{<<InvalidLevel, n>>} : n \in 1..MaxBaseFile},
     add \in {<<>>}
              \cup {<<<<InvalidLevel, n>>>> : n \in 1..MaxBaseFile}
              \cup {<<<<InvalidLevel, n>>, <<InvalidLevel, m>>>> :
                      n \in 1..MaxBaseFile, m \in 1..MaxBaseFile}}
    \ {NoEdit}

\* Edits over the life of one builder: a deletion, a new file, a deletion
\* together with a new file of that number, or two new files.
LifeEdits ==
  {DelEdit(l, n) : l \in Levels, n \in 1..MaxBaseFile}
  \cup {AddEdit(l, n) : l \in Levels, n \in 1..MaxBaseFile}
  \cup {[DelEdit(l, n) EXCEPT !.added = <<<<l, n>>>>] :
          l \in Levels, n \in 1..MaxBaseFile}
  \cup {[NoEdit EXCEPT !.added = <<<<l, 1>>, <<l2, 2>>>>] :
          l \in Levels, l2 \in Levels}

\* ------------------------------------------------------------ 2PC retention
Logs == 1..MaxLog
CFs == 1..NumCF

\* std::priority_queue with std::greater: push keeps the smallest on top
RECURSIVE HeapPush(_, _)
HeapPush(heap, log) ==
  IF heap = <<>> THEN <<log>>
  ELSE IF log <= Head(heap) THEN <<log>> \o heap
  ELSE <<Head(heap)>> \o HeapPush(Tail(heap), log)

\* lines 53-59 (the entry exists: assert(it != end()))
MarkLogAsHavingPrepSectionFlushed(log) ==
  /\ prepared_section_completed_[log] >= 0
  /\ prepared_section_completed_' =
        [prepared_section_completed_ EXCEPT ![log] = @ + 1]
  /\ outstanding_prep' = [outstanding_prep EXCEPT ![log] = @ - 1]
  /\ UNCHANGED min_log_with_prep_

\* lines 62-70
MarkLogAsContainingPrepSection(log) ==
  /\ min_log_with_prep_' = HeapPush(min_log_with_prep_, log)
  /\ prepared_section_completed_' =
        IF prepared_section_completed_[log] = -1
        THEN [prepared_section_completed_ EXCEPT ![log] = 0]
        ELSE prepared_section_completed_
  /\ outstanding_prep' = [outstanding_prep EXCEPT ![log] = @ + 1]

\* Mutant: a tombstone is popped without its count being decremented.
RECURSIVE FindMinLog_NoDecrement(_, _)
FindMinLog_NoDecrement(heap, completed) ==
  IF ~allow_2pc \/ heap = <<>>
  THEN [min_log |-> 0, heap |-> heap, completed |-> completed]
  ELSE IF completed[Head(heap)] > 0
  THEN FindMinLog_NoDecrement(Tail(heap), completed)
  ELSE [min_log |-> Head(heap), heap |-> heap, completed |-> completed]

\* lines 72-104: [min_log, heap, completed] after the call
RECURSIVE FindMinLogContainingOutstandingPrep(_, _)
FindMinLogContainingOutstandingPrep(heap, completed) ==
  IF ~allow_2pc \/ heap = <<>>
  THEN [min_log |-> 0, heap |-> heap, completed |-> completed]
  ELSE IF completed[Head(heap)] > 0
  THEN FindMinLogContainingOutstandingPrep(
         Tail(heap), [completed EXCEPT ![Head(heap)] = @ - 1])
  ELSE [min_log |-> Head(heap), heap |-> heap, completed |-> completed]

\* Mutant: the immutable memtables are not looked at.
MinPrepLogOfCF_SkipsImm(min_log, cf) ==
  IF cfds[cf].dropped THEN min_log
  ELSE IF cfds[cf].mem > 0 /\ (min_log = 0 \/ cfds[cf].mem < min_log)
       THEN cfds[cf].mem ELSE min_log

\* lines 36-46: one column family of the loop, min_log so far
MinPrepLogOfCF(min_log, cf) ==
  IF cfds[cf].dropped THEN min_log
  ELSE LET m1 == IF cfds[cf].imm > 0 /\ (min_log = 0 \/ cfds[cf].imm < min_log)
                 THEN cfds[cf].imm ELSE min_log
       IN IF cfds[cf].mem > 0 /\ (m1 = 0 \/ cfds[cf].mem < m1)
          THEN cfds[cf].mem ELSE m1

\* lines 22-50, over the column families from cf on
RECURSIVE FindMinPrepLogReferencedByMemTable(_, _)
FindMinPrepLogReferencedByMemTable(min_log, cf) ==
  IF ~allow_2pc THEN 0
  ELSE IF cf > NumCF THEN min_log
  ELSE FindMinPrepLogReferencedByMemTable(MinPrepLogOfCF(min_log, cf), cf + 1)

\* raced records that the write path ran while the call was between its reads
\* min_log_in_prep_heap is the local of line 120, popped the number of
\* tombstones the call took off the heap
Idle ==
  [pc |-> "idle", log_number |-> 0, raced |-> FALSE,
   min_log_in_prep_heap |-> 0, popped |-> 0]

Raced == [keep EXCEPT !.raced = @ \/ keep.pc \in {"heap", "mem"}]

\* Mutant: the memtables are read before the prep heap.
KeepOrder_MemFirst == <<"mem", "heap">>

\* lines 119-129: the order of the two lookups
KeepOrder == <<"heap", "mem">>

KeepAfter(pc) == IF pc = KeepOrder[1] THEN KeepOrder[2] ELSE "done"

\* MinLogNumberToKeep, lines 106-132.  The caller holds the db mutex; the
\* prep heap is read under prep_heap_mutex_, the memtables after it.
KeepBegin ==
  /\ keep.pc = "idle"
  /\ keep' = [pc |-> IF allow_2pc THEN KeepOrder[1] ELSE "done",
              log_number |-> versions_min_log, raced |-> FALSE,
              min_log_in_prep_heap |-> 0, popped |-> 0]
  /\ UNCHANGED <<allow_2pc, outstanding_prep, min_log_with_prep_, prepared_section_completed_,
                 cfds, versions_min_log, cur_log, committing>>

KeepHeap ==
  /\ keep.pc = "heap"
  /\ LET r == FindMinLogContainingOutstandingPrep(min_log_with_prep_,
                                                  prepared_section_completed_)
     IN /\ min_log_with_prep_' = r.heap
        /\ prepared_section_completed_' = r.completed
        /\ keep' = [keep EXCEPT
                      !.pc = KeepAfter("heap"),
                      !.min_log_in_prep_heap = r.min_log,
                      !.popped = Len(min_log_with_prep_) - Len(r.heap),
                      !.log_number = IF r.min_log # 0 /\ r.min_log < @
                                     THEN r.min_log ELSE @]
  /\ UNCHANGED <<allow_2pc, outstanding_prep, cfds, versions_min_log, cur_log, committing>>

KeepMem ==
  /\ keep.pc = "mem"
  /\ LET m == FindMinPrepLogReferencedByMemTable(0, 1)
     IN keep' = [keep EXCEPT
                   !.pc = KeepAfter("mem"),
                   !.log_number = IF m # 0 /\ m < @ THEN m ELSE @]
  /\ UNCHANGED <<allow_2pc, outstanding_prep, min_log_with_prep_, prepared_section_completed_,
                 cfds, versions_min_log, cur_log, committing>>

KeepReturn ==
  /\ keep.pc = "done"
  /\ keep' = Idle
  /\ UNCHANGED <<allow_2pc, outstanding_prep, min_log_with_prep_, prepared_section_completed_,
                 cfds, versions_min_log, cur_log, committing>>

\* ------------------------------------------------------------ write path
HeapCount(log) ==
  Cardinality({i \in 1..Len(min_log_with_prep_) : min_log_with_prep_[i] = log})

\* prepared sections of log that no commit or rollback has picked up yet
Uncommitted(log) ==
  HeapCount(log)
    - (IF prepared_section_completed_[log] > 0
       THEN prepared_section_completed_[log] ELSE 0)
    - committing[log]

\* A prepare record is written to the current WAL.
Prepare ==
  /\ allow_2pc
  /\ Len(min_log_with_prep_) < MaxPrep
  /\ MarkLogAsContainingPrepSection(cur_log)
  /\ UNCHANGED <<allow_2pc, cfds, versions_min_log, cur_log, committing>>
  /\ keep' = Raced

\* MemTable::RefLogContainingPrepSection
RefLog(m, log) == IF m = 0 \/ log < m THEN log ELSE m

\* A commit inserts the prepared batch into the memtable of cf: the memtable
\* now references the log of the prepare ...
CommitInsert(log, cf) ==
  /\ allow_2pc
  /\ Uncommitted(log) > 0
  /\ ~cfds[cf].dropped
  /\ cfds' = [cfds EXCEPT ![cf].mem = RefLog(@, log)]
  /\ committing' = [committing EXCEPT ![log] = @ + 1]
  /\ UNCHANGED <<allow_2pc, outstanding_prep, min_log_with_prep_, prepared_section_completed_,
                 versions_min_log, cur_log>>
  /\ keep' = Raced

\* ... and only then marks the log's prepared section as flushed.
CommitMark(log) ==
  /\ committing[log] > 0
  /\ MarkLogAsHavingPrepSectionFlushed(log)
  /\ committing' = [committing EXCEPT ![log] = @ - 1]
  /\ UNCHANGED <<allow_2pc, cfds, versions_min_log, cur_log>>
  /\ keep' = Raced

\* A rollback marks the log without touching a memtable.
Rollback(log) ==
  /\ allow_2pc
  /\ Uncommitted(log) > 0
  /\ MarkLogAsHavingPrepSectionFlushed(log)
  /\ UNCHANGED <<allow_2pc, cfds, versions_min_log, cur_log, committing>>
  /\ keep' = Raced

\* ------------------------------------------------------------ under the db mutex
MutexFree == keep.pc = "idle"

\* The memtable of cf becomes immutable and a new WAL is started.
SwitchMemtable(cf) ==
  /\ MutexFree
  /\ cur_log < MaxLog
  /\ ~cfds[cf].dropped
  /\ cfds' = [cfds EXCEPT ![cf].imm = IF cfds[cf].mem = 0 THEN @
                                      ELSE RefLog(@, cfds[cf].mem),
                          ![cf].mem = 0]
  /\ cur_log' = cur_log + 1
  /\ UNCHANGED <<allow_2pc, outstanding_prep, min_log_with_prep_, prepared_section_completed_,
                 versions_min_log, committing, keep>>

\* The immutable memtables of cf are flushed; the version set's minimum log
\* moves up to the current WAL at most.
FlushDone(cf, log) ==
  /\ MutexFree
  /\ log >= versions_min_log /\ log <= cur_log
  /\ ~cfds[cf].dropped
  /\ cfds' = [cfds EXCEPT ![cf].imm = 0]
  /\ versions_min_log' = log
  /\ UNCHANGED <<allow_2pc, outstanding_prep, min_log_with_prep_, prepared_section_completed_,
                 cur_log, committing, keep>>

DropColumnFamily(cf) ==
  /\ MutexFree
  /\ cf # 1
  /\ ~cfds[cf].dropped
  /\ cfds' = [cfds EXCEPT ![cf].dropped = TRUE]
  /\ UNCHANGED <<allow_2pc, outstanding_prep, min_log_with_prep_, prepared_section_completed_,
                 versions_min_log, cur_log, committing, keep>>

InitPrep ==
  /\ allow_2pc \in BOOLEAN
  /\ min_log_with_prep_ = <<>>
  /\ prepared_section_completed_ = [l \in Logs |-> -1]
  /\ cfds = [cf \in CFs |-> [dropped |-> FALSE, mem |-> 0, imm |-> 0]]
  /\ versions_min_log = 1
  /\ cur_log = 1
  /\ committing = [l \in Logs |-> 0]
  /\ keep = Idle
  /\ outstanding_prep = [l \in Logs |-> 0]

\* 2PC machinery that is never used
PrepUnused ==
  /\ allow_2pc = FALSE
  /\ min_log_with_prep_ = <<>>
  /\ prepared_section_completed_ = [l \in Logs |-> -1]
  /\ cfds = [cf \in CFs |-> [dropped |-> FALSE, mem |-> 0, imm |-> 0]]
  /\ versions_min_log = 1
  /\ cur_log = 1
  /\ committing = [l \in Logs |-> 0]
  /\ keep = Idle
  /\ outstanding_prep = [l \in Logs |-> 0]

\* A builder that was never opened
BuilderUnused ==
  /\ \E c \in BaseChoices : c.k = 0 /\ (\A n \in 1..MaxBaseFile : c.place[n] = -1)
        /\ InitBuilder(c)
  /\ ndebug = FALSE

\* ------------------------------------------------------------ obsolete files
\* A file name is what ParseFileName makes of it: its type, its number and
\* whether it carries the options-file prefix.
FileName(type, number) == [type |-> type, number |-> number, options |-> FALSE]

MakeTableFileName(number) == FileName("table", number)

LogFileName(number) == FileName("log", number)

DescriptorFileName(number) == FileName("descriptor", number)

\* Table numbers lie above the WAL and manifest numbers of the layout below.
TableNumbers == 5..(4 + MaxTables)

\* std::numeric_limits<uint64_t>::max(): above every file number
NoPendingOutput == 10 + MaxTables + MaxNewFiles

SetMin(S) == CHOOSE x \in S : \A y \in S : x <= y

\* JobContext as constructed
NewJobContext(garbage) ==
  [manifest_file_number |-> 0, pending_manifest_file_number |-> 0,
   log_number |-> 0, prev_log_number |-> 0, min_pending_output |-> 0,
   sst_live |-> {}, sst_delete_files |-> {}, manifest_delete_files |-> {},
   log_delete_files |-> <<>>, full_scan_candidate_files |-> {},
   log_recycle_files |-> <<>>, size_log_to_delete |-> 0,
   prev_total_log_size |-> 0, num_alive_log_files |-> 0,
   logs_to_free |-> 0, memtables_to_free |-> garbage]

\* JobContext::HaveSomethingToDelete
HaveSomethingToDelete(jc) ==
  \/ jc.full_scan_candidate_files # {}
  \/ jc.sst_delete_files # {}
  \/ jc.log_delete_files # <<>>
  \/ jc.manifest_delete_files # {}
  \/ jc.logs_to_free > 0
  \/ jc.memtables_to_free

\* The timed scan taken as soon as the period has passed
DoingTheFullScan_AtPeriod(force, no_full_scan) ==
  IF no_full_scan THEN FALSE
  ELSE IF force \/ delete_obsolete_files_period_micros = 0 THEN TRUE
  ELSE delete_obsolete_files_last_run_ + delete_obsolete_files_period_micros
         <= now_micros

\* lines 152-168
DoingTheFullScan(force, no_full_scan) ==
  IF no_full_scan THEN FALSE
  ELSE IF force \/ delete_obsolete_files_period_micros = 0 THEN TRUE
  ELSE delete_obsolete_files_last_run_ + delete_obsolete_files_period_micros
         < now_micros

\* lines 175-180
MinPendingOutput ==
  IF pending_outputs_ # {} THEN SetMin(pending_outputs_) ELSE NoPendingOutput

\* VersionSet::GetObsoleteFiles: hands out the obsolete tables below the
\* watermark and keeps the others for a later call
GetObsoleteFiles(min_pending_output) ==
  [files |-> {n \in obsolete_files_ : n < min_pending_output},
   pending |-> {n \in obsolete_files_ : n >= min_pending_output},
   manifests |-> {DescriptorFileName(n) : n \in obsolete_manifests_}]

\* VersionSet::AddLiveFiles: every file a live version lists in a level or
\* holds in its frozen set
AddLiveFiles == live_files \cup frozen_files

\* Mutant: the log to keep lies one past the version set's minimum.
MinLogNumberToKeep_PastMinimum ==
  LET r == FindMinLogContainingOutstandingPrep(min_log_with_prep_,
                                               prepared_section_completed_)
  IN [log_number |-> versions_min_log + 1, heap |-> r.heap,
      completed |-> r.completed]

\* MinLogNumberToKeep run under the db mutex: [log_number, heap, completed]
MinLogNumberToKeep ==
  LET r == FindMinLogContainingOutstandingPrep(min_log_with_prep_,
                                               prepared_section_completed_)
      m == FindMinPrepLogReferencedByMemTable(0, 1)
      l1 == IF allow_2pc /\ r.min_log # 0 /\ r.min_log < versions_min_log
            THEN r.min_log ELSE versions_min_log
      l2 == IF allow_2pc /\ m # 0 /\ m < l1 THEN m ELSE l1
  IN [log_number |-> l2, heap |-> r.heap, completed |-> r.completed]

\* The first loop, were every obsolete log recycled
RECURSIVE ReapAliveLogs_RecycleAll(_, _)
ReapAliveLogs_RecycleAll(min_log_number, st) ==
  IF st.alive = <<>> \/ Head(st.alive).number >= min_log_number THEN st
  ELSE LET earliest == Head(st.alive)
       IN ReapAliveLogs_RecycleAll(min_log_number,
            [alive |-> Tail(st.alive),
             recycle |-> Append(st.recycle, earliest.number),
             delete |-> st.delete,
             prev_total |-> IF st.size = 0 THEN st.total ELSE st.prev_total,
             size |-> st.size + earliest.size,
             total |-> st.total - earliest.size])

\* lines 239-266: [alive, recycle, delete, size, total] after the first loop
RECURSIVE ReapAliveLogs(_, _)
ReapAliveLogs(min_log_number, st) ==
  IF st.alive = <<>> \/ Head(st.alive).number >= min_log_number THEN st
  ELSE LET earliest == Head(st.alive)
           recycle == recycle_log_file_num > Len(st.recycle)
       IN ReapAliveLogs(min_log_number,
            [alive |-> Tail(st.alive),
             recycle |-> IF recycle THEN Append(st.recycle, earliest.number)
                         ELSE st.recycle,
             delete |-> IF recycle THEN st.delete
                        ELSE Append(st.delete, earliest.number),
             prev_total |-> IF st.size = 0 THEN st.total ELSE st.prev_total,
             size |-> st.size + earliest.size,
             total |-> st.total - earliest.size])

\* The second loop, were a log being synced freed like any other
RECURSIVE ReapLogWriters_NoWait(_, _)
ReapLogWriters_NoWait(min_log_number, st) ==
  IF st.logs = <<>> \/ Head(st.logs).number >= min_log_number THEN st
  ELSE ReapLogWriters_NoWait(min_log_number,
         [st EXCEPT !.logs = Tail(@), !.freed = @ + 1])

\* lines 267-279: [logs, freed, waiting] where the second loop stops
RECURSIVE ReapLogWriters(_, _)
ReapLogWriters(min_log_number, st) ==
  IF st.logs = <<>> \/ Head(st.logs).number >= min_log_number THEN st
  ELSE IF Head(st.logs).getting_synced THEN [st EXCEPT !.waiting = TRUE]
  ELSE ReapLogWriters(min_log_number,
         [st EXCEPT !.logs = Tail(@), !.freed = @ + 1])

\* lines 267-289: the writers of obsolete logs are released, unless one of
\* them is being synced: then the call waits on log_sync_cv_.  reap tells
\* whether the block of line 235 is entered.
FinishFind(jc, reap) ==
  LET w == ReapLogWriters(jc.log_number,
             [logs |-> logs_, freed |-> logs_to_free_, waiting |-> FALSE])
  IN IF reap /\ w.waiting
     THEN /\ logs_' = w.logs
          /\ logs_to_free_' = w.freed
          /\ job_context' = jc
          /\ purge_pc' = "waiting"
     ELSE /\ logs_' = IF reap THEN w.logs ELSE logs_
          /\ logs_to_free_' = 0
          /\ job_context' =
               [jc EXCEPT !.logs_to_free = IF reap THEN w.freed
                                           ELSE logs_to_free_,
                          !.log_recycle_files = log_recycle_files']
          /\ purge_pc' = "found"

FindUnchanged ==
  UNCHANGED <<disable_delete_obsolete_files_,
              delete_obsolete_files_period_micros, now_micros,
              pending_outputs_, manifest_file_number,
              pending_manifest_file_number, prev_log_number, live_files,
              frozen_files, dir, recycle_log_file_num, wal_archive,
              keep_log_file_num, allow_2pc, cfds, versions_min_log,
              cur_log, committing, keep, outstanding_prep,
              next_file_number_,
                 syncs_started>>

\* FindObsoleteFiles, lines 143-290, on a job context with or without
\* memtables to free.  The current log is never below the log to keep, so
\* the first loop leaves it in the deque.
FindObsoleteFiles(force, no_full_scan, garbage) ==
  /\ purge_pc \in {"idle", "purged"}
  /\ keep.pc = "idle"
  /\ deleted' = {} /\ scheduled' = {} /\ archived' = {}
  /\ gathered' = [live |-> live_files, frozen |-> frozen_files,
                  pending |-> pending_outputs_, next |-> next_file_number_]
  /\ FindUnchanged
  /\ IF disable_delete_obsolete_files_ > 0
     THEN /\ job_context' = NewJobContext(garbage)
          /\ purge_pc' = "found"
          /\ UNCHANGED <<delete_obsolete_files_last_run_, obsolete_files_,
                         obsolete_manifests_, alive_log_files_, logs_,
                         log_recycle_files, total_log_size_, logs_to_free_,
                         min_log_with_prep_, prepared_section_completed_>>
     ELSE
       LET doing_the_full_scan == DoingTheFullScan(force, no_full_scan)
           min_pending_output == MinPendingOutput
           obsolete == GetObsoleteFiles(min_pending_output)
           k == MinLogNumberToKeep
           reap == alive_log_files_ # <<>> /\ logs_ # <<>>
           r == ReapAliveLogs(k.log_number,
                  [alive |-> alive_log_files_, recycle |-> log_recycle_files,
                   delete |-> <<>>, prev_total |-> 0, size |-> 0,
                   total |-> total_log_size_])
           jc == [NewJobContext(garbage) EXCEPT
                    !.min_pending_output = min_pending_output,
                    !.sst_delete_files = obsolete.files,
                    !.manifest_delete_files = obsolete.manifests,
                    !.manifest_file_number = manifest_file_number,
                    !.pending_manifest_file_number =
                        pending_manifest_file_number,
                    !.log_number = k.log_number,
                    !.prev_log_number = prev_log_number,
                    !.sst_live = AddLiveFiles,
                    !.full_scan_candidate_files =
                        IF doing_the_full_scan THEN dir ELSE {},
                    !.log_delete_files = IF reap THEN r.delete ELSE <<>>,
                    !.size_log_to_delete = IF reap THEN r.size ELSE 0,
                    !.prev_total_log_size = IF reap THEN r.prev_total ELSE 0,
                    !.num_alive_log_files =
                        IF reap /\ r.size > 0 THEN Len(alive_log_files_)
                        ELSE 0]
       IN /\ delete_obsolete_files_last_run_' =
               IF ~no_full_scan /\ ~force
                  /\ delete_obsolete_files_period_micros # 0
                  /\ doing_the_full_scan
               THEN now_micros ELSE delete_obsolete_files_last_run_
          /\ obsolete_files_' = obsolete.pending
          /\ obsolete_manifests_' = {}
          /\ min_log_with_prep_' = k.heap
          /\ prepared_section_completed_' = k.completed
          /\ alive_log_files_' = IF reap THEN r.alive ELSE alive_log_files_
          /\ log_recycle_files' = IF reap THEN r.recycle ELSE log_recycle_files
          /\ total_log_size_' = IF reap THEN r.total ELSE total_log_size_
          /\ FinishFind(jc, reap)

\* lines 270-272: the wait on log_sync_cv_ ends and the second loop goes on
FindResume ==
  /\ purge_pc = "waiting"
  /\ ~(logs_ # <<>> /\ Head(logs_).number < job_context.log_number
       /\ Head(logs_).getting_synced)
  /\ FindUnchanged
  /\ UNCHANGED <<delete_obsolete_files_last_run_, obsolete_files_,
                 obsolete_manifests_, alive_log_files_, log_recycle_files,
                 total_log_size_, min_log_with_prep_,
                 prepared_section_completed_, deleted, scheduled, archived,
                 gathered>>
  /\ FinishFind(job_context, TRUE)

\* The sync of the WALs completes and log_sync_cv_ is signalled.
MarkLogsSynced ==
  /\ purge_pc \in {"idle", "waiting", "purged"}
  /\ \E i \in 1..Len(logs_) : logs_[i].getting_synced
  /\ logs_' = [i \in 1..Len(logs_) |-> [logs_[i] EXCEPT !.getting_synced = FALSE]]
  /\ UNCHANGED <<disable_delete_obsolete_files_,
                 delete_obsolete_files_period_micros,
                 delete_obsolete_files_last_run_, now_micros, pending_outputs_,
                 obsolete_files_, obsolete_manifests_, manifest_file_number,
                 pending_manifest_file_number, prev_log_number, live_files,
                 frozen_files, dir, alive_log_files_, log_recycle_files,
                 total_log_size_, logs_to_free_, recycle_log_file_num,
                 wal_archive, keep_log_file_num, job_context, purge_pc,
                 deleted, scheduled, archived, gathered, next_file_number_,
                 syncs_started,
                 pvars>>

\* A sync of the WALs begins: every log in logs_ is marked.  A sync waits for
\* the one before it.
SyncWAL ==
  /\ logs_ # <<>>
  /\ \A i \in 1..Len(logs_) : ~logs_[i].getting_synced
  /\ syncs_started < MaxSyncs
  /\ syncs_started' = syncs_started + 1
  /\ logs_' = [i \in 1..Len(logs_) |-> [logs_[i] EXCEPT !.getting_synced = TRUE]]
  /\ UNCHANGED <<disable_delete_obsolete_files_,
                 delete_obsolete_files_period_micros,
                 delete_obsolete_files_last_run_, now_micros, pending_outputs_,
                 obsolete_files_, obsolete_manifests_, manifest_file_number,
                 pending_manifest_file_number, prev_log_number, live_files,
                 frozen_files, dir, alive_log_files_, log_recycle_files,
                 total_log_size_, logs_to_free_, recycle_log_file_num,
                 wal_archive, keep_log_file_num, job_context, purge_pc,
                 deleted, scheduled, archived, gathered, next_file_number_,
                 pvars>>

\* env_->NowMicros() moves on.
Tick ==
  /\ now_micros < MaxNow
  /\ now_micros' = now_micros + 1
  /\ UNCHANGED <<disable_delete_obsolete_files_,
                 delete_obsolete_files_period_micros,
                 delete_obsolete_files_last_run_, pending_outputs_,
                 obsolete_files_, obsolete_manifests_, manifest_file_number,
                 pending_manifest_file_number, prev_log_number, live_files,
                 frozen_files, dir, alive_log_files_, logs_,
                 log_recycle_files, total_log_size_, logs_to_free_,
                 recycle_log_file_num, wal_archive, keep_log_file_num,
                 job_context, purge_pc, deleted, scheduled, archived,
                 gathered, next_file_number_,
                 syncs_started, pvars>>

\* delete_obsolete_files_period_micros is a mutable db option.
SetDBOptions(period) ==
  /\ delete_obsolete_files_period_micros # period
  /\ delete_obsolete_files_period_micros' = period
  /\ UNCHANGED <<disable_delete_obsolete_files_,
                 delete_obsolete_files_last_run_, now_micros,
                 pending_outputs_, obsolete_files_, obsolete_manifests_,
                 manifest_file_number, pending_manifest_file_number,
                 prev_log_number, live_files, frozen_files, dir,
                 alive_log_files_, logs_, log_recycle_files, total_log_size_,
                 logs_to_free_, recycle_log_file_num, wal_archive,
                 keep_log_file_num, job_context, purge_pc, deleted,
                 scheduled, archived, gathered, next_file_number_,
                 syncs_started, pvars>>

\* The write path starts a new WAL, on a recycled file where it takes one.
NewWAL(size, reuse) ==
  /\ alive_log_files_ # <<>>
  /\ cur_log < MaxWal
  /\ cur_log' = cur_log + 1
  /\ alive_log_files_' =
       Append(alive_log_files_, [number |-> cur_log + 1, size |-> size])
  /\ logs_' = Append(logs_, [number |-> cur_log + 1, getting_synced |-> FALSE])
  /\ total_log_size_' = total_log_size_ + size
  /\ IF reuse /\ log_recycle_files # <<>>
     THEN /\ log_recycle_files' = Tail(log_recycle_files)
          /\ dir' = (dir \ {LogFileName(Head(log_recycle_files))})
                      \cup {LogFileName(cur_log + 1)}
     ELSE /\ log_recycle_files' = log_recycle_files
          /\ dir' = dir \cup {LogFileName(cur_log + 1)}
  /\ UNCHANGED <<disable_delete_obsolete_files_,
                 delete_obsolete_files_period_micros,
                 delete_obsolete_files_last_run_, now_micros,
                 pending_outputs_, obsolete_files_, obsolete_manifests_,
                 manifest_file_number, pending_manifest_file_number,
                 prev_log_number, live_files, frozen_files, logs_to_free_,
                 recycle_log_file_num, wal_archive, keep_log_file_num,
                 job_context, purge_pc, deleted, scheduled, archived,
                 gathered, next_file_number_,
                 syncs_started, allow_2pc, min_log_with_prep_,
                 prepared_section_completed_, cfds, versions_min_log,
                 committing, keep, outstanding_prep>>

InfoLogNumbers == (5 + MaxTables)..(4 + MaxTables + MaxInfoLogs)

\* The logger rolls: the info log written so far stays in the directory
\* under a name of its own, later in name order than the older ones.
RollInfoLog(n) ==
  /\ n \in InfoLogNumbers
  /\ \A f \in dir : f.type = "info_log" => f.number < n
  /\ dir' = dir \cup {FileName("info_log", n)}
  /\ UNCHANGED <<disable_delete_obsolete_files_,
                 delete_obsolete_files_period_micros,
                 delete_obsolete_files_last_run_, now_micros,
                 pending_outputs_, obsolete_files_, obsolete_manifests_,
                 manifest_file_number, pending_manifest_file_number,
                 prev_log_number, live_files, frozen_files,
                 alive_log_files_, logs_, log_recycle_files, total_log_size_,
                 logs_to_free_, recycle_log_file_num, wal_archive,
                 keep_log_file_num, job_context, purge_pc, deleted,
                 scheduled, archived, gathered, next_file_number_,
                 syncs_started, pvars>>

\* lines 365-397: the candidates, deduplicated
CandidateFiles(state) ==
  state.full_scan_candidate_files
    \cup {MakeTableFileName(n) : n \in state.sst_delete_files}
    \cup {LogFileName(state.log_delete_files[i]) :
            i \in {j \in 1..Len(state.log_delete_files) :
                     state.log_delete_files[j] > 0}}
    \cup state.manifest_delete_files

\* Mutant: the table rule without the pending-output watermark.
KeepTableFile_NoWatermark(state, number) == number \in state.sst_live

\* lines 434-439
KeepTableFile(state, number) ==
  number \in state.sst_live \/ number >= state.min_pending_output

\* Mutant: a manifest is kept only when it is newer than the current one.
KeepFile_NewerManifest(state, f) ==
  CASE f.type = "log" ->
         \/ f.number >= state.log_number
         \/ f.number = state.prev_log_number
         \/ \E i \in 1..Len(state.log_recycle_files) :
               state.log_recycle_files[i] = f.number
    [] f.type = "descriptor" -> f.number > state.manifest_file_number
    [] f.type = "table" -> KeepTableFile(state, f.number)
    [] f.type = "temp" ->
         \/ f.number \in state.sst_live
         \/ f.number = state.pending_manifest_file_number
         \/ f.options
    [] OTHER -> TRUE

\* lines 421-467
KeepFile(state, f) ==
  CASE f.type = "log" ->
         \/ f.number >= state.log_number
         \/ f.number = state.prev_log_number
         \/ \E i \in 1..Len(state.log_recycle_files) :
               state.log_recycle_files[i] = f.number
    [] f.type = "descriptor" -> f.number >= state.manifest_file_number
    [] f.type = "table" -> KeepTableFile(state, f.number)
    [] f.type = "temp" ->
         \/ f.number \in state.sst_live
         \/ f.number = state.pending_manifest_file_number
         \/ f.options
    [] OTHER -> TRUE

\* lines 453-458 and 501-507: the old info logs the retention pass removes
RECURSIVE SortByNumber(_)
SortByNumber(S) ==
  IF S = {} THEN <<>>
  ELSE LET f == CHOOSE x \in S : \A y \in S : x.number <= y.number
       IN <<f>> \o SortByNumber(S \ {f})

OldInfoLogFiles(state) ==
  SortByNumber({f \in CandidateFiles(state) :
                  f.type = "info_log" /\ f.number # 0})

\* The retention pass, were keep_log_file_num old info logs left
InfoLogsToDelete_KeepsNum(state) ==
  LET old == OldInfoLogFiles(state)
      count == Len(old)
  IN IF count > keep_log_file_num
     THEN {old[i] : i \in 1..(count - keep_log_file_num)}
     ELSE {}

InfoLogsToDelete(state) ==
  LET old == OldInfoLogFiles(state)
      count == Len(old)
  IN IF count # 0 /\ count >= keep_log_file_num
     THEN {old[i + 1] : i \in 0..(count - keep_log_file_num)}
     ELSE {}

PurgeUnchanged ==
  UNCHANGED <<disable_delete_obsolete_files_,
              delete_obsolete_files_period_micros,
              delete_obsolete_files_last_run_, now_micros, pending_outputs_,
              obsolete_files_, obsolete_manifests_, manifest_file_number,
              pending_manifest_file_number, prev_log_number, live_files,
              frozen_files, alive_log_files_, logs_, log_recycle_files,
              total_log_size_, logs_to_free_, recycle_log_file_num,
              wal_archive, keep_log_file_num, job_context, gathered,
              next_file_number_,
                 syncs_started, pvars>>

\* PurgeObsoleteFiles, lines 345-538, called as DeleteObsoleteFiles calls it:
\* when the job context has something to delete
PurgeObsoleteFiles(schedule_only) ==
  /\ purge_pc = "found"
  /\ HaveSomethingToDelete(job_context)
  /\ purge_pc' = "purged"
  /\ PurgeUnchanged
  /\ IF job_context.manifest_file_number = 0
     THEN UNCHANGED <<dir, deleted, scheduled, archived>>
     ELSE LET state == job_context
              drop == {f \in CandidateFiles(state) : ~KeepFile(state, f)}
              archive == {f \in drop : f.type = "log" /\ wal_archive}
              info == InfoLogsToDelete(state)
          IN /\ archived' = archive
             /\ scheduled' = IF schedule_only THEN drop \ archive ELSE {}
             /\ deleted' = (IF schedule_only THEN {} ELSE drop \ archive)
                             \cup info
             /\ dir' = dir \ (archive \cup deleted')

\* lines 546-549: nothing to delete, the job context is cleaned
CleanJobContext ==
  /\ purge_pc = "found"
  /\ ~HaveSomethingToDelete(job_context)
  /\ purge_pc' = "idle"
  /\ PurgeUnchanged
  /\ UNCHANGED <<dir, deleted, scheduled, archived>>

\* The version set hands out numbers above every number in use.
FirstNewFile == 8 + MaxTables

\* ------------------------------------------------------------ jobs
\* Flush and compaction jobs, which take the db mutex for each of these
\* steps and so never run inside FindObsoleteFiles.
JobUnchanged ==
  UNCHANGED <<syncs_started, disable_delete_obsolete_files_,
              delete_obsolete_files_period_micros,
              delete_obsolete_files_last_run_, now_micros,
              obsolete_manifests_, manifest_file_number,
              pending_manifest_file_number, prev_log_number, frozen_files,
              alive_log_files_, logs_, log_recycle_files, total_log_size_,
              logs_to_free_, recycle_log_file_num, wal_archive,
              keep_log_file_num, job_context, purge_pc, deleted, scheduled,
              archived, gathered, pvars>>

\* A job starts: the next file number goes into pending_outputs_.
JobStart ==
  /\ next_file_number_ < FirstNewFile + MaxNewFiles
  /\ next_file_number_ \notin pending_outputs_
  /\ pending_outputs_' = pending_outputs_ \cup {next_file_number_}
  /\ JobUnchanged
  /\ UNCHANGED <<obsolete_files_, live_files, dir, next_file_number_>>

\* A running job takes a new file number and writes its output table.
JobCreate ==
  /\ next_file_number_ < FirstNewFile + MaxNewFiles
  /\ \E w \in pending_outputs_ : w <= next_file_number_
  /\ dir' = dir \cup {MakeTableFileName(next_file_number_)}
  /\ next_file_number_' = next_file_number_ + 1
  /\ JobUnchanged
  /\ UNCHANGED <<pending_outputs_, obsolete_files_, live_files>>

\* A job installs the output n in a new version; the files of inputs leave
\* the live versions and become obsolete.
JobInstall(n, inputs) ==
  /\ MakeTableFileName(n) \in dir
  /\ n \notin live_files \cup frozen_files \cup obsolete_files_
  /\ \E w \in pending_outputs_ : w <= n
  /\ inputs \subseteq live_files
  /\ live_files' = (live_files \ inputs) \cup {n}
  /\ obsolete_files_' = obsolete_files_ \cup inputs
  /\ JobUnchanged
  /\ UNCHANGED <<pending_outputs_, dir, next_file_number_>>

\* A job ends and takes its number out of pending_outputs_.
JobRelease(w) ==
  /\ w \in pending_outputs_
  /\ pending_outputs_' = pending_outputs_ \ {w}
  /\ JobUnchanged
  /\ UNCHANGED <<obsolete_files_, live_files, dir, next_file_number_>>

\* A db that never looks for obsolete files
FilesUnused ==
  /\ disable_delete_obsolete_files_ = 0
  /\ delete_obsolete_files_period_micros = 0
  /\ delete_obsolete_files_last_run_ = 0
  /\ now_micros = 0
  /\ pending_outputs_ = {}
  /\ obsolete_files_ = {}
  /\ obsolete_manifests_ = {}
  /\ manifest_file_number = 2
  /\ pending_manifest_file_number = 0
  /\ prev_log_number = 0
  /\ live_files = {}
  /\ frozen_files = {}
  /\ dir = {}
  /\ alive_log_files_ = <<>>
  /\ logs_ = <<>>
  /\ log_recycle_files = <<>>
  /\ total_log_size_ = 0
  /\ logs_to_free_ = 0
  /\ recycle_log_file_num = 0
  /\ wal_archive = FALSE
  /\ keep_log_file_num = 1
  /\ job_context = NewJobContext(FALSE)
  /\ purge_pc = "idle"
  /\ deleted = {}
  /\ scheduled = {}
  /\ archived = {}
  /\ gathered = [live |-> {}, frozen |-> {}, pending |-> {}, next |-> 0]
  /\ next_file_number_ = FirstNewFile
  /\ syncs_started = 0

\* ------------------------------------------------------------ a db directory
\* Numbers come from one counter, so no two files share one.  The layout:
\* WALs 1 and 3, manifests 2 and 4, tables and the temp files of tables
\* being written from 5 on, info logs (numbered by time) above those.
TableRoles ==
  {"none", "live", "frozen", "obsolete", "garbage", "written", "writing",
   "reserved"}

\* The files PurgeObsoleteFiles keeps whatever their number.
OtherFiles ==
  {FileName(t, 0) : t \in {"current", "db_lock", "identity", "meta_database"}}
    \cup {FileName("options", 6 + MaxTables), FileName("blob", 7 + MaxTables)}

\* The options of a db, one of them off its default at a time:
\* [archive, prev, recycle, keep]
OptionChoices ==
  {[archive |-> FALSE, prev |-> 0, recycle |-> 0, keep |-> 1],
   [archive |-> TRUE, prev |-> 0, recycle |-> 0, keep |-> 1],
   [archive |-> FALSE, prev |-> 1, recycle |-> 0, keep |-> 1],
   [archive |-> FALSE, prev |-> 0, recycle |-> 1, keep |-> 1],
   [archive |-> FALSE, prev |-> 0, recycle |-> 0, keep |-> 2]}

InitFilesOf(two_pc) ==
  \E role \in [TableNumbers -> TableRoles] :
  \E wal \in 1..4 : \E roll \in BOOLEAN : \E off \in BOOLEAN :
  \E opt \in OptionChoices :
    LET is(rs) == {n \in TableNumbers : role[n] \in rs}
    IN
    /\ disable_delete_obsolete_files_ = IF off THEN 1 ELSE 0
    /\ delete_obsolete_files_period_micros = 2
    /\ delete_obsolete_files_last_run_ = 0
    /\ now_micros = 2
    /\ pending_outputs_ = is({"written", "writing", "reserved"})
    /\ obsolete_files_ = is({"obsolete"})
    /\ obsolete_manifests_ = IF roll THEN {} ELSE {2}
    /\ manifest_file_number = IF roll THEN 2 ELSE 4
    /\ pending_manifest_file_number = IF roll THEN 4 ELSE 0
    /\ prev_log_number = opt.prev
    /\ live_files = is({"live"})
    /\ frozen_files = is({"frozen"})
    /\ dir = {MakeTableFileName(n) :
                n \in is({"live", "frozen", "obsolete", "garbage", "written"})}
             \cup {FileName("temp", n) : n \in is({"writing"})}
             \cup {LogFileName(1), LogFileName(3), DescriptorFileName(2)}
             \cup (IF roll THEN {FileName("temp", 4)}
                   ELSE {DescriptorFileName(4)})
             \cup {FileName("info_log", 5 + MaxTables)}
             \cup OtherFiles
    /\ alive_log_files_ = IF wal = 4 THEN <<>>
                          ELSE <<[number |-> 1, size |-> 1],
                                 [number |-> 3, size |-> 1]>>
    /\ logs_ = IF wal = 4 THEN <<>>
               ELSE <<[number |-> 1, getting_synced |-> wal = 3],
                      [number |-> 3, getting_synced |-> FALSE]>>
    /\ versions_min_log = IF wal = 1 THEN 1 ELSE 3
    /\ cur_log = 3
    /\ log_recycle_files = <<>>
    /\ total_log_size_ = IF wal = 4 THEN 0 ELSE 2
    /\ logs_to_free_ = 0
    /\ recycle_log_file_num = opt.recycle
    /\ wal_archive = opt.archive
    /\ keep_log_file_num = opt.keep
    /\ job_context = NewJobContext(FALSE)
    /\ purge_pc = "idle"
    /\ deleted = {}
    /\ scheduled = {}
    /\ archived = {}
    /\ gathered = [live |-> {}, frozen |-> {}, pending |-> {}, next |-> 0]
    /\ next_file_number_ = FirstNewFile
    /\ syncs_started = 0
    /\ allow_2pc = two_pc
    /\ min_log_with_prep_ = <<>>
    /\ prepared_section_completed_ = [l \in Logs |-> -1]
    /\ cfds = [cf \in CFs |-> [dropped |-> FALSE, mem |-> 0, imm |-> 0]]
    /\ committing = [l \in Logs |-> 0]
    /\ keep = Idle
    /\ outstanding_prep = [l \in Logs |-> 0]

\* ------------------------------------------------------------ FileSliceIterator
\* Internal keys: a user key with a sequence number.
InternalKeys == [user : 1..MaxUserKey, seq : 1..MaxSeq]

\* InternalKeyComparator::Compare: user keys ascending, and for one user key
\* the higher sequence number first.
Compare(a, b) ==
  IF a.user < b.user THEN -1
  ELSE IF a.user > b.user THEN 1
  ELSE IF a.seq > b.seq THEN -1
  ELSE IF a.seq < b.seq THEN 1
  ELSE 0

\* file_iter_->Valid()
FileIterValid(keys, pos) == pos >= 1 /\ pos <= Len(keys)

\* file_iter_->Seek(target): the first entry at or after target
Seek(keys, target) ==
  IF \E i \in 1..Len(keys) : Compare(keys[i], target) >= 0
  THEN CHOOSE i \in 1..Len(keys) :
         /\ Compare(keys[i], target) >= 0
         /\ \A j \in 1..(i - 1) : Compare(keys[j], target) < 0
  ELSE Len(keys) + 1

\* The positioning, were an excluded smallest key not stepped over
SeekToFirst_KeepsSmallest(keys, slice) == Seek(keys, slice.smallest)

\* lines 79-84
SeekToFirst(keys, slice) ==
  LET pos == Seek(keys, slice.smallest)
  IN IF /\ ~slice.is_contain_smallest
        /\ FileIterValid(keys, pos)
        /\ Compare(keys[pos], slice.smallest) = 0
     THEN pos + 1
     ELSE pos

\* lines 19-37
Valid(keys, slice, pos) ==
  IF ~FileIterValid(keys, pos) THEN FALSE
  ELSE LET key == keys[pos]
           scmp == Compare(key, slice.smallest)
       IN IF scmp < 0 \/ (scmp = 0 /\ ~slice.is_contain_smallest) THEN FALSE
          ELSE IF Compare(key, slice.largest) > 0 THEN FALSE
          ELSE TRUE

IterUnused ==
  /\ file_keys = <<>>
  /\ file_slice_ = [smallest |-> [user |-> 1, seq |-> 1],
                    largest |-> [user |-> 1, seq |-> 1],
                    is_contain_smallest |-> TRUE]
  /\ file_iter_ = 0
  /\ iter_pc = "new"
  /\ visited = <<>>

\* The entries of a table file, in strictly increasing internal-key order
RECURSIVE SortKeys(_)
SortKeys(S) ==
  IF S = {} THEN <<>>
  ELSE LET k == CHOOSE x \in S : \A y \in S : Compare(x, y) <= 0
       IN <<k>> \o SortKeys(S \ {k})

\* lines 10-17: the constructor positions the iterator
Construct ==
  /\ iter_pc = "new"
  /\ file_iter_' = SeekToFirst(file_keys, file_slice_)
  /\ iter_pc' = "constructed"
  /\ UNCHANGED <<file_keys, file_slice_, visited>>

\* lines 49-62, called by a traversal that has read key() while Valid()
FileSliceIteratorNext ==
  /\ iter_pc = "constructed"
  /\ Valid(file_keys, file_slice_, file_iter_)
  /\ LET pre_key == file_keys[file_iter_]
         pos == file_iter_ + 1
     IN /\ visited' = Append(visited, pre_key)
        /\ file_iter_' = pos
        /\ iter_pc' = IF /\ AssertsOn
                         /\ Valid(file_keys, file_slice_, pos)
                         /\ Compare(file_keys[pos], pre_key) <= 0
                      THEN "aborted" ELSE "constructed"
  /\ UNCHANGED <<file_keys, file_slice_>>

\* lines 86-88
SeekToLast(keys, slice) == Seek(keys, slice.largest)

\* SeekToLast called on a constructed iterator, wherever it stands
CallSeekToLast ==
  /\ iter_pc = "constructed"
  /\ file_iter_' = SeekToLast(file_keys, file_slice_)
  /\ iter_pc' = "at_last"
  /\ UNCHANGED <<file_keys, file_slice_, visited>>

\* The traversal ends where Valid() is false.
TraversalEnds ==
  /\ iter_pc = "constructed"
  /\ ~Valid(file_keys, file_slice_, file_iter_)
  /\ iter_pc' = "done"
  /\ UNCHANGED <<file_keys, file_slice_, file_iter_, visited>>

\* A db that does not allow two-phase commit
InitFiles == InitFilesOf(FALSE)

\* ------------------------------------------------------------ specifications
\* Builder over a base version whose files carry no slices.
Init == PrepUnused /\ FilesUnused /\ IterUnused /\ \E c \in BaseChoices : c.k = 0 /\ InitBuilder(c)

Next ==
  \/ \E edit \in LevelEdits : Apply(edit) /\ UNCHANGED <<pvars, fvars, ivars>>
  \/ \E t \in 1..MaxThreshold : SaveTo(t) /\ UNCHANGED <<pvars, fvars, ivars>>

Spec == Init /\ [][Next]_vars

\* Builder over a base version with slices and a frozen parent.
InitSlices == PrepUnused /\ FilesUnused /\ IterUnused /\ \E c \in BaseChoices : InitBuilder(c)

NextSlices ==
  \/ \E edit \in SliceEdits : Apply(edit) /\ UNCHANGED <<pvars, fvars, ivars>>
  \/ \E t \in 1..MaxThreshold : SaveTo(t) /\ UNCHANGED <<pvars, fvars, ivars>>
  \/ Destroy /\ UNCHANGED <<pvars, fvars, ivars>>

SpecSlices == InitSlices /\ [][NextSlices]_vars

\* Builder whose SaveTo is called more than once, each time on a new
\* VersionStorageInfo.
NextResave ==
  \/ \E edit \in SliceEdits : Apply(edit) /\ UNCHANGED <<pvars, fvars, ivars>>
  \/ SaveTo(DefaultMergeThreshold) /\ UNCHANGED <<pvars, fvars, ivars>>
  \/ NewVersion /\ UNCHANGED <<pvars, fvars, ivars>>

SpecResave == InitSlices /\ [][NextResave]_vars

\* Builder given edits that name a level it does not have, and edits that
\* add a file on level 0.
NextInvalid ==
  \/ \E edit \in InvalidEdits : Apply(edit) /\ UNCHANGED <<pvars, fvars, ivars>>
  \/ \E n \in 1..MaxBaseFile : Apply(AddEdit(0, n)) /\ UNCHANGED <<pvars, fvars, ivars>>

SpecInvalid == Init /\ [][NextInvalid]_vars

\* One builder from construction to destruction: edits, the table handlers
\* loaded by worker threads, the snapshot saved, the builder destroyed.
InitLife == PrepUnused /\ FilesUnused /\ IterUnused /\ \E c \in BaseChoices : c.k = 0 /\ InitBuilder(c)

NextLife ==
  \/ \E edit \in LifeEdits : Apply(edit) /\ UNCHANGED <<pvars, fvars, ivars>>
  \/ \E max_threads \in 0..MaxThreads :
        LoadTableHandlers(max_threads) /\ UNCHANGED <<pvars, fvars, ivars>>
  \/ \E t \in Workers : LoadFetch(t) /\ UNCHANGED <<pvars, fvars, ivars>>
  \/ \E t \in Workers : \E found \in BOOLEAN :
        LoadFind(t, found) /\ UNCHANGED <<pvars, fvars, ivars>>
  \/ LoadReturn /\ UNCHANGED <<pvars, fvars, ivars>>
  \/ SaveTo(DefaultMergeThreshold) /\ UNCHANGED <<pvars, fvars, ivars>>
  \/ Destroy /\ UNCHANGED <<pvars, fvars, ivars>>

SpecLife == InitLife /\ [][NextLife]_vars

\* 2PC log retention: MinLogNumberToKeep against the write path.
InitKeep == BuilderUnused /\ FilesUnused /\ IterUnused /\ InitPrep

NextKeep ==
  \/ KeepBegin /\ UNCHANGED <<bvars, fvars, ivars>>
  \/ KeepHeap /\ UNCHANGED <<bvars, fvars, ivars>>
  \/ KeepMem /\ UNCHANGED <<bvars, fvars, ivars>>
  \/ KeepReturn /\ UNCHANGED <<bvars, fvars, ivars>>
  \/ Prepare /\ UNCHANGED <<bvars, fvars, ivars>>
  \/ \E log \in Logs : \E cf \in CFs : CommitInsert(log, cf) /\ UNCHANGED <<bvars, fvars, ivars>>
  \/ \E log \in Logs : CommitMark(log) /\ UNCHANGED <<bvars, fvars, ivars>>
  \/ \E log \in Logs : Rollback(log) /\ UNCHANGED <<bvars, fvars, ivars>>
  \/ \E cf \in CFs : SwitchMemtable(cf) /\ UNCHANGED <<bvars, fvars, ivars>>
  \/ \E cf \in CFs : \E log \in Logs : FlushDone(cf, log) /\ UNCHANGED <<bvars, fvars, ivars>>
  \/ \E cf \in CFs : DropColumnFamily(cf) /\ UNCHANGED <<bvars, fvars, ivars>>

SpecKeep == InitKeep /\ [][NextKeep]_vars

\* Obsolete-file resolution over a db directory.
InitPurge == BuilderUnused /\ IterUnused /\ InitFiles

NextPurge ==
  \/ \E force \in BOOLEAN : \E no_full_scan \in BOOLEAN : \E garbage \in BOOLEAN :
        FindObsoleteFiles(force, no_full_scan, garbage) /\ UNCHANGED <<bvars, ivars>>
  \/ FindResume /\ UNCHANGED <<bvars, ivars>>
  \/ MarkLogsSynced /\ UNCHANGED <<bvars, ivars>>
  \/ \E schedule_only \in BOOLEAN :
        PurgeObsoleteFiles(schedule_only) /\ UNCHANGED <<bvars, ivars>>
  \/ CleanJobContext /\ UNCHANGED <<bvars, ivars>>

SpecPurge == InitPurge /\ [][NextPurge]_vars

\* The decision to scan the directory, as the clock moves and the period is
\* set: a db with its default options, no WAL to reap and no running job.
InitScan ==
  /\ InitPurge
  /\ alive_log_files_ = <<>>
  /\ ~wal_archive /\ prev_log_number = 0 /\ recycle_log_file_num = 0
  /\ keep_log_file_num = 1
  /\ pending_outputs_ = {} /\ frozen_files = {} /\ obsolete_files_ = {}

NextScan ==
  \/ \E force \in BOOLEAN : \E no_full_scan \in BOOLEAN :
        FindObsoleteFiles(force, no_full_scan, FALSE) /\ UNCHANGED <<bvars, ivars>>
  \/ PurgeObsoleteFiles(FALSE) /\ UNCHANGED <<bvars, ivars>>
  \/ CleanJobContext /\ UNCHANGED <<bvars, ivars>>
  \/ Tick /\ UNCHANGED <<bvars, ivars>>
  \/ \E period \in 0..MaxPeriod : SetDBOptions(period) /\ UNCHANGED <<bvars, ivars>>

SpecScan == InitScan /\ [][NextScan]_vars

\* The WALs of a db without table files, as new WALs are started and
\* flushes make the old ones obsolete.
InitWal ==
  /\ InitPurge
  /\ alive_log_files_ # <<>>
  /\ disable_delete_obsolete_files_ = 0
  /\ ~wal_archive /\ prev_log_number = 0 /\ keep_log_file_num = 1
  /\ pending_outputs_ = {} /\ live_files = {} /\ frozen_files = {}
  /\ obsolete_files_ = {}
  /\ \A n \in TableNumbers : MakeTableFileName(n) \notin dir

NextWal ==
  \/ FindObsoleteFiles(FALSE, TRUE, FALSE) /\ UNCHANGED <<bvars, ivars>>
  \/ FindResume /\ UNCHANGED <<bvars, ivars>>
  \/ MarkLogsSynced /\ UNCHANGED <<bvars, ivars>>
  \/ PurgeObsoleteFiles(FALSE) /\ UNCHANGED <<bvars, ivars>>
  \/ CleanJobContext /\ UNCHANGED <<bvars, ivars>>
  \/ \E size \in 1..MaxWalSize : \E reuse \in BOOLEAN :
        NewWAL(size, reuse) /\ UNCHANGED <<bvars, ivars>>
  \/ \E log \in 1..MaxWal : FlushDone(1, log) /\ UNCHANGED <<bvars, fvars, ivars>>
  \/ SyncWAL /\ UNCHANGED <<bvars, ivars>>

SpecWal == InitWal /\ [][NextWal]_vars

\* A sync that began completes, and a call woken on log_sync_cv_ goes on.
FairSpecWal ==
  /\ SpecWal
  /\ WF_vars(MarkLogsSynced /\ UNCHANGED <<bvars, ivars>>)
  /\ WF_vars(FindResume /\ UNCHANGED <<bvars, ivars>>)

\* The info logs of a db as the logger rolls between purges.
InitInfoLogs ==
  /\ InitPurge
  /\ alive_log_files_ = <<>>
  /\ disable_delete_obsolete_files_ = 0
  /\ ~wal_archive /\ prev_log_number = 0 /\ recycle_log_file_num = 0
  /\ pending_outputs_ = {} /\ frozen_files = {} /\ obsolete_files_ = {}

NextInfoLogs ==
  \/ FindObsoleteFiles(TRUE, FALSE, FALSE) /\ UNCHANGED <<bvars, ivars>>
  \/ \E schedule_only \in BOOLEAN :
        PurgeObsoleteFiles(schedule_only) /\ UNCHANGED <<bvars, ivars>>
  \/ \E n \in InfoLogNumbers : RollInfoLog(n) /\ UNCHANGED <<bvars, ivars>>

SpecInfoLogs == InitInfoLogs /\ [][NextInfoLogs]_vars

\* The WALs of a db with or without two-phase commit, whose prepared
\* sections hold back the log to keep.
InitReap ==
  /\ BuilderUnused /\ IterUnused
  /\ \E two_pc \in BOOLEAN : InitFilesOf(two_pc)
  /\ alive_log_files_ # <<>>
  /\ disable_delete_obsolete_files_ = 0
  /\ ~wal_archive /\ prev_log_number = 0 /\ keep_log_file_num = 1
  /\ recycle_log_file_num = 0
  /\ pending_outputs_ = {} /\ live_files = {} /\ frozen_files = {}
  /\ obsolete_files_ = {}
  /\ \A n \in TableNumbers : MakeTableFileName(n) \notin dir

NextReap ==
  \/ FindObsoleteFiles(FALSE, TRUE, FALSE) /\ UNCHANGED <<bvars, ivars>>
  \/ FindResume /\ UNCHANGED <<bvars, ivars>>
  \/ MarkLogsSynced /\ UNCHANGED <<bvars, ivars>>
  \/ PurgeObsoleteFiles(FALSE) /\ UNCHANGED <<bvars, ivars>>
  \/ CleanJobContext /\ UNCHANGED <<bvars, ivars>>
  \/ NewWAL(1, FALSE) /\ UNCHANGED <<bvars, ivars>>
  \/ \E log \in 1..MaxWal : FlushDone(1, log) /\ UNCHANGED <<bvars, fvars, ivars>>
  \/ cur_log \in Logs /\ Prepare /\ UNCHANGED <<bvars, fvars, ivars>>
  \/ \E log \in Logs : CommitInsert(log, 1) /\ UNCHANGED <<bvars, fvars, ivars>>
  \/ \E log \in Logs : CommitMark(log) /\ UNCHANGED <<bvars, fvars, ivars>>
  \/ \E log \in Logs : Rollback(log) /\ UNCHANGED <<bvars, fvars, ivars>>

SpecReap == InitReap /\ [][NextReap]_vars

\* A purge among running jobs: the db has its default options and no WAL to
\* reap.
InitJobs ==
  /\ InitPurge
  /\ disable_delete_obsolete_files_ = 0
  /\ alive_log_files_ = <<>>
  /\ ~wal_archive /\ prev_log_number = 0 /\ recycle_log_file_num = 0
  /\ keep_log_file_num = 1
  /\ manifest_file_number = 4

JobFiles == TableNumbers \cup (FirstNewFile..(FirstNewFile + MaxNewFiles - 1))

NextJobs ==
  \/ \E force \in BOOLEAN :
        FindObsoleteFiles(force, FALSE, FALSE) /\ UNCHANGED <<bvars, ivars>>
  \/ PurgeObsoleteFiles(FALSE) /\ UNCHANGED <<bvars, ivars>>
  \/ CleanJobContext /\ UNCHANGED <<bvars, ivars>>
  \/ JobStart /\ UNCHANGED <<bvars, ivars>>
  \/ JobCreate /\ UNCHANGED <<bvars, ivars>>
  \/ \E n \in JobFiles : \E inputs \in {{}} \cup {{m} : m \in TableNumbers} :
        JobInstall(n, inputs) /\ UNCHANGED <<bvars, ivars>>
  \/ \E w \in JobFiles : JobRelease(w) /\ UNCHANGED <<bvars, ivars>>

SpecJobs == InitJobs /\ [][NextJobs]_vars

\* ============================================================ claims
Saved == status = "saved"

AdjacentPairs(level) ==
  {<<vstorage.files[level][i - 1], vstorage.files[level][i]>> :
     i \in 2..Len(vstorage.files[level])}

NoOverlapAboveL0 ==
  \A level \in Levels \ {0} : \A p \in AdjacentPairs(level) :
     largest(Num(p[1])) < smallest(Num(p[2]))

\* C2 (as stated): after any Apply calls, a SaveTo that does not abort yields
\* a snapshot whose levels > 0 hold no two adjacent files with
\* f1.largest >= f2.smallest.
C2_Original == Saved => NoOverlapAboveL0

\* C2 (amended): the same, for a SaveTo whose consistency checks run (a debug
\* build, or force_consistency_checks set); a file whose smallest key equals
\* the largest key of its left neighbour is then never saved.
C2_NoOverlapWhenChecked == (Saved /\ ChecksRun) => NoOverlapAboveL0

C2_Witness ==
  /\ Saved /\ ChecksRun
  /\ \E level \in Levels \ {0} :
        /\ Len(vstorage.files[level]) >= 2
        /\ levels_[level].added_files # {}

L0Rule(f1, f2) ==
  \/ /\ smallest_seqno(Num(f2)) = largest_seqno(Num(f2))
     /\ \/ smallest_seqno(Num(f2)) = 0
        \/ smallest_seqno(Num(f2)) < largest_seqno(Num(f1))
  \/ smallest_seqno(Num(f1)) > smallest_seqno(Num(f2))

\* C3 (as stated): in every snapshot of a SaveTo that does not abort, adjacent
\* level-0 files obey the ingested-file rule or f1.smallest_seqno >
\* f2.smallest_seqno.
C3_Original == Saved => \A p \in AdjacentPairs(0) : L0Rule(p[1], p[2])

\* C3 (amended): the same, for a SaveTo whose consistency checks run.
C3_L0RuleWhenChecked ==
  (Saved /\ ChecksRun) => \A p \in AdjacentPairs(0) : L0Rule(p[1], p[2])

C3_Witness ==
  /\ Saved /\ ChecksRun
  /\ Len(vstorage.files[0]) >= 2
  /\ levels_[0].added_files # {}

\* C5: with the consistency checks running, no saved snapshot lists a file
\* number on two different levels.
C5_NoFileOnTwoLevels ==
  (Saved /\ ChecksRun) =>
     \A l1 \in Levels : \A l2 \in Levels \ {l1} :
        {Num(f) : f \in Range(vstorage.files[l1])}
           \cap {Num(f) : f \in Range(vstorage.files[l2])} = {}

\* C7: an edit adding f (not in the base) on a level, then an edit deleting f
\* on that level, then SaveTo: the level file lists equal the base's.
C7_RoundTrip ==
  \A l \in Levels : \A n \in Numbers :
     (/\ Saved
      /\ applied = <<AddEdit(l, n), DelEdit(l, n)>>
      /\ BaseId(n) \notin LiveBase)
     => vstorage.files = base_vstorage_.files

C7_Witness ==
  /\ Saved
  /\ LiveBase # {}
  /\ \E l \in Levels : \E n \in Numbers :
        /\ applied = <<AddEdit(l, n), DelEdit(l, n)>>
        /\ BaseId(n) \notin LiveBase

SameAddTwice ==
  \E l \in Levels : \E n \in Numbers : applied = <<AddEdit(l, n), AddEdit(l, n)>>

Rejected == status = "aborted" /\ abort_reason = "assert: duplicate add"

\* C8 (as stated): applying an edit twice whose second application re-adds a
\* staged file number is rejected by the duplicate-add assertion, and no
\* staged record is ever silently replaced.
C8_Original == (SameAddTwice => Rejected) /\ leaked = 0

\* C8 (amended): the same, in a build that compiles assertions (NDEBUG not
\* defined).
C8_RejectedWhenAsserting ==
  AssertsOn => ((SameAddTwice => Rejected) /\ leaked = 0)

C8_Witness == AssertsOn /\ SameAddTwice /\ Rejected

\* Sort keys spelled out: level 0 by (largest_seqno, smallest_seqno, number)
\* descending, levels > 0 by (smallest key, number) ascending.
ListedBefore(level, f, g) ==
  IF level = 0
  THEN \/ largest_seqno(Num(f)) > largest_seqno(Num(g))
       \/ /\ largest_seqno(Num(f)) = largest_seqno(Num(g))
          /\ \/ smallest_seqno(Num(f)) > smallest_seqno(Num(g))
             \/ /\ smallest_seqno(Num(f)) = smallest_seqno(Num(g))
                /\ Num(f) >= Num(g)
  ELSE \/ smallest(Num(f)) < smallest(Num(g))
       \/ smallest(Num(f)) = smallest(Num(g)) /\ Num(f) <= Num(g)

ExpectedFiles(level) ==
  ((Range(base_vstorage_.files[level])
      \cup {NewId(level, n) : n \in levels_[level].added_files})
     \ {f \in AllIds : Num(f) \in levels_[level].deleted_files})
    \ levels_[level].added_frozen_files

\* C9: the file list SaveTo produces for a level is (base files + staged added
\* files) minus the files staged as deleted or as moved to frozen, each once,
\* in the order of the level's comparator.
C9_SavedLevelContents ==
  Saved =>
    \A level \in Levels :
       /\ Range(vstorage.files[level]) = ExpectedFiles(level)
       /\ Len(vstorage.files[level]) = Cardinality(ExpectedFiles(level))
       /\ \A i \in 1..Len(vstorage.files[level]) :
             \A j \in i..Len(vstorage.files[level]) :
                ListedBefore(level, vstorage.files[level][i],
                             vstorage.files[level][j])

C9_Witness ==
  /\ Saved
  /\ \E level \in Levels :
        /\ Len(vstorage.files[level]) >= 3
        /\ levels_[level].added_files # {}
        /\ \E i \in 2..Len(vstorage.files[level]) :
              /\ vstorage.files[level][i] \in BaseIds
              /\ vstorage.files[level][i - 1] \notin BaseIds

\* C4: every file in the frozen set of a saved snapshot has slice_refs > 0
\* (checked where the build compiles every assertion and consistency check).
C4_FrozenFilesPinned ==
  (Saved /\ ~ndebug) => \A f \in vstorage.frozen : fmeta[f].slice_refs > 0

FanOutExceeds(f) == Len(fmeta[f].file_slices) > merge_threshold

SlicesStagedFor(level, f) ==
  \E i \in 1..Len(levels_[level].added_file_slices) :
     levels_[level].added_file_slices[i].output_file_number = Num(f)

\* C10 (as stated): after SaveTo, every file placed in a level whose slice
\* fan-out exceeds merge_threshold has its MergeTask in the merge-task set.
C10_Original ==
  Saved =>
    \A level \in Levels : \A f \in Range(vstorage.files[level]) :
       FanOutExceeds(f) => MergeTask(level, f) \in merge_tasks

\* C10 (amended): after SaveTo, every file placed in a level to which this
\* SaveTo attached at least one new slice and whose fan-out then exceeds
\* merge_threshold has its MergeTask in the merge-task set.
C10_TaskWhenSlicesAttached ==
  Saved =>
    \A level \in Levels : \A f \in Range(vstorage.files[level]) :
       (SlicesStagedFor(level, f) /\ FanOutExceeds(f))
          => MergeTask(level, f) \in merge_tasks

C10_Witness ==
  /\ Saved
  /\ \E level \in Levels : \E f \in Range(vstorage.files[level]) :
        /\ SlicesStagedFor(level, f)
        /\ FanOutExceeds(f)
        /\ MergeTask(level, f) \in merge_tasks

\* A FileSliceIterator over any parent file of the key space and any slice
\* of it, traversed forward.
InitIter ==
  /\ PrepUnused /\ FilesUnused /\ BuilderUnused
  /\ \E S \in SUBSET InternalKeys : file_keys = SortKeys(S)
  /\ file_slice_ \in [smallest : InternalKeys, largest : InternalKeys,
                       is_contain_smallest : BOOLEAN]
  /\ file_iter_ = 0
  /\ iter_pc = "new"
  /\ visited = <<>>

NextIter ==
  \/ Construct /\ UNCHANGED <<bvars, pvars, fvars>>
  \/ FileSliceIteratorNext /\ UNCHANGED <<bvars, pvars, fvars>>
  \/ TraversalEnds /\ UNCHANGED <<bvars, pvars, fvars>>

SpecIter == InitIter /\ [][NextIter]_vars

\* A FileSliceIterator moved forward and then sent to the end of its slice.
NextSeek ==
  \/ Construct /\ UNCHANGED <<bvars, pvars, fvars>>
  \/ FileSliceIteratorNext /\ UNCHANGED <<bvars, pvars, fvars>>
  \/ CallSeekToLast /\ UNCHANGED <<bvars, pvars, fvars>>

SpecSeek == InitIter /\ [][NextSeek]_vars

\* ------------------------------------------------------------ C6
Returned == keep.pc = "done" /\ allow_2pc

MemTableLogs ==
  {cfds[cf].mem : cf \in {c \in CFs : ~cfds[c].dropped /\ cfds[c].mem > 0}}
    \cup {cfds[cf].imm : cf \in {c \in CFs : ~cfds[c].dropped /\ cfds[c].imm > 0}}

HeapLogsNotCompleted ==
  {l \in Logs : HeapCount(l) > 0 /\ prepared_section_completed_[l] <= 0}

\* C6: the value MinLogNumberToKeep returns is at most every log a memtable
\* references for a prepared section and at most every log of the prepared
\* heap whose completion count is zero, also when prepares, commits and
\* rollbacks run during the call.
C6_KeepsReferencedLogs ==
  Returned => \A l \in MemTableLogs \cup HeapLogsNotCompleted :
                 keep.log_number <= l

C6_Witness ==
  /\ Returned
  /\ keep.raced
  /\ keep.log_number < versions_min_log
  /\ keep.log_number \in MemTableLogs
  /\ HeapCount(keep.log_number) = 0

\* ------------------------------------------------------------ C1
Purged == purge_pc = "purged"

Removed == deleted \cup scheduled

\* the table files a purge removes are neither live, nor frozen, nor at or
\* above the smallest pending output
RemovedTablesUnused ==
  Purged => \A f \in Removed :
     f.type = "table" =>
        /\ f.number \notin gathered.live \cup gathered.frozen
        /\ f.number \notin gathered.pending
        /\ \A n \in gathered.pending : f.number < n

\* C1: every file a purge deletes or schedules for deletion has a number
\* that is not in the live set, not in the pending outputs and, for a table
\* file, not in the frozen set of a snapshot.
C1_RemovedFilesUnused ==
  Purged => \A f \in Removed :
     /\ f.number \notin gathered.live
     /\ f.number \notin gathered.pending
     /\ (f.type = "table" => f.number \notin gathered.frozen)

\* ------------------------------------------------------------ C11
PurgeRan == Purged /\ job_context.manifest_file_number # 0

Gone(f) == f \in deleted \cup scheduled \cup archived

AlwaysKeptTypes ==
  {"current", "db_lock", "identity", "meta_database", "options", "blob"}

OldInfoLogCount ==
  Cardinality({f \in CandidateFiles(job_context) :
                 f.type = "info_log" /\ f.number # 0})

\* C11: a log candidate is kept iff its number is >= log_number, equals
\* prev_log_number or is in the recycle set; a manifest is kept iff its
\* number is >= the current manifest number; Current, DB-lock, Identity,
\* Meta-database, Options and Blob files are always kept, and an info log is
\* removed by the retention pass only; every candidate not kept is deleted,
\* archived or scheduled for deletion.
C11_Classification ==
  PurgeRan => \A f \in CandidateFiles(job_context) :
    /\ f.type = "log" =>
         (Gone(f) <=> ~(\/ f.number >= job_context.log_number
                        \/ f.number = job_context.prev_log_number
                        \/ f.number \in Range(job_context.log_recycle_files)))
    /\ f.type = "descriptor" =>
         (Gone(f) <=> f.number < job_context.manifest_file_number)
    /\ f.type \in AlwaysKeptTypes => ~Gone(f)
    /\ (f.type = "info_log" /\ OldInfoLogCount < keep_log_file_num) => ~Gone(f)

C11_Witness ==
  /\ PurgeRan
  /\ LogFileName(1) \in archived
  /\ DescriptorFileName(2) \in deleted
  /\ LogFileName(3) \in CandidateFiles(job_context) /\ ~Gone(LogFileName(3))
  /\ OtherFiles \subseteq CandidateFiles(job_context)

\* ------------------------------------------------------------ C12
\* C12: a temp file candidate is kept when its number equals the pending
\* manifest number, and otherwise still when its number is >=
\* min_pending_output.
C12_TempFileKept ==
  PurgeRan => \A f \in CandidateFiles(job_context) :
    (f.type = "temp"
       /\ (\/ f.number = job_context.pending_manifest_file_number
           \/ f.number >= job_context.min_pending_output))
      => ~Gone(f)

\* the half of C12 the temp-file rule implements
TempOfPendingManifestKept ==
  PurgeRan => \A f \in CandidateFiles(job_context) :
    (f.type = "temp" /\ f.number = job_context.pending_manifest_file_number)
      => ~Gone(f)

\* ------------------------------------------------------------ C13
\* the call of FindMinLogContainingOutstandingPrep inside MinLogNumberToKeep
HeapCallReturns == keep.pc = "heap" /\ keep'.pc # "heap"

OutstandingLogs == {l \in Logs : outstanding_prep[l] > 0}

MinOutstanding == IF OutstandingLogs = {} THEN 0 ELSE SetMin(OutstandingLogs)

\* every pop took one tombstone off the count of its log
PopsDecrement ==
  \A l \in Logs :
    HeapCount(l) - HeapCount(l)' =
      prepared_section_completed_[l] - prepared_section_completed_'[l]

\* C13 as stated: the call returns the smallest log with more Containing than
\* Flushed marks (0 when there is none) and leaves no heap entry whose log
\* has a completion count > 0.
C13_Original ==
  [][HeapCallReturns =>
       /\ keep'.min_log_in_prep_heap = MinOutstanding
       /\ PopsDecrement
       /\ \A l \in Logs :
            HeapCount(l)' > 0 => prepared_section_completed_'[l] <= 0]_vars

\* C13: the call returns the smallest log with more Containing than Flushed
\* marks (0 when there is none); every entry it pops decrements the count of
\* its log by one, and it pops until the top of the heap has a completion
\* count of zero, leaving the tombstones of logs above the answer in place.
C13_FindMinAndTombstones ==
  [][HeapCallReturns =>
       /\ keep'.min_log_in_prep_heap = MinOutstanding
       /\ PopsDecrement
       /\ (min_log_with_prep_' # <<>> =>
             prepared_section_completed_'[Head(min_log_with_prep_')] <= 0)]_vars

C13_Witness ==
  /\ keep.pc = "mem"
  /\ keep.popped > 0
  /\ keep.min_log_in_prep_heap = 2
  /\ outstanding_prep[1] = 0

\* ------------------------------------------------------------ C14
\* a call the write path did not run into
KeepReturnedAlone == keep.pc = "done" /\ ~keep.raced

NonZero(S) == S \ {0}

\* C14: MinLogNumberToKeep returns the version set's minimum log when 2PC is
\* disabled, and with 2PC the minimum of that log, of the prep heap's answer
\* and of the prep logs of the active and immutable memtables of the
\* non-dropped column families, leaving out the zeros.
C14_MinLogNumberToKeep ==
  KeepReturnedAlone =>
    keep.log_number =
      IF allow_2pc
      THEN SetMin({versions_min_log}
                    \cup NonZero({keep.min_log_in_prep_heap})
                    \cup MemTableLogs)
      ELSE versions_min_log

C14_Witness ==
  /\ KeepReturnedAlone
  /\ allow_2pc
  /\ versions_min_log = 3
  /\ keep.min_log_in_prep_heap = 2
  /\ MemTableLogs = {1}
  /\ keep.log_number = 1

\* ------------------------------------------------------------ C15
\* C15: a FileMetaData record is freed by a builder operation (the delete of
\* a staged file in Apply, the destructor) only when that call brought refs
\* to zero and the record's slice_refs is zero.
C15_FreedOnlyUnreferenced ==
  \A e \in unref_log : e.freed => (e.refs = 0 /\ e.slice_refs = 0)

\* The builder freed a staged record and is destroyed, while a file of the
\* base version is referenced by slices.
C15_Witness ==
  /\ status = "destroyed"
  /\ \E e \in unref_log : e.freed
  /\ \E f \in AllIds : fmeta[f].allocated /\ fmeta[f].slice_refs > 0
\* ------------------------------------------------------------ C16
\* C16: every UnrefFile call of the builder is on a live record (none is
\* unref'd after it was freed); a call releases the handle exactly when it
\* brings refs to zero and the record holds one, and then frees the record;
\* the cache never gets a handle back twice, and a freed record holds no
\* handle. Where no record was dropped by a second add of its number, the
\* cache has every handle of a freed record back.
C16_HandleReleasedOnce ==
  /\ \A e \in unref_log :
        /\ e.allocated
        /\ e.released <=> (e.refs = 0 /\ e.handle)
        /\ e.freed <=> e.refs = 0
  /\ \A f \in AllIds :
        /\ table_cache_[f] >= 0
        /\ ~fmeta[f].allocated => ~table_reader_handle[f]
        /\ (leaked = 0 /\ ~fmeta[f].allocated) => table_cache_[f] = 0

\* After the handlers were loaded, the delete of a staged file released a
\* handle; the snapshot was saved and the builder destroyed, which left
\* another record alive with its handle.
C16_Witness ==
  /\ status = "destroyed"
  /\ \E e \in unref_log : e.released
  /\ \E d \in unref_log :
        ~d.freed /\ d.handle /\ table_reader_handle[d.f] /\ table_cache_[d.f] = 1
\* ------------------------------------------------------------ C19
\* C19: while LoadTableHandlers runs no two workers hold the same index and
\* no staged file is opened twice; when it has returned every worker is out
\* of its loop and every staged file was opened exactly once, whatever the
\* opens of the other files gave.
C19_EachFileOpenedOnce ==
  /\ \A i \in DOMAIN opened : opened[i] <= 1
  /\ \A t \in Workers : \A u \in Workers \ {t} :
        (threads[t].pc = "find" /\ threads[u].pc = "find")
           => threads[t].file_idx # threads[u].file_idx
  /\ load_pc = "done" =>
        /\ \A t \in Workers : threads[t].pc \in {"none", "exit"}
        /\ DOMAIN opened = DOMAIN files_meta
        /\ \A i \in DOMAIN opened : opened[i] = 1

\* MaxThreads workers have loaded two or more staged files and the call has
\* returned; the open of the first file failed and the open of the second
\* one gave a handle.
C19_Witness ==
  /\ load_pc = "done"
  /\ status = "open"
  /\ \A t \in Workers : threads[t].pc = "exit"
  /\ Len(files_meta) >= 2
  /\ ~table_reader_handle[files_meta[1]]
  /\ table_reader_handle[files_meta[2]]
  /\ unref_log = {}
\* ------------------------------------------------------------ C17
\* C17: whatever the jobs did between FindObsoleteFiles and the
\* PurgeObsoleteFiles call on its job context, no table file that call
\* removes has a number that pending_outputs_ held or covered when the
\* context was filled, and none has a number handed out after that.
C17_JobOutputsSurvive ==
  Purged =>
    \A f \in Removed :
      f.type = "table" =>
        /\ \A w \in gathered.pending : f.number < w
        /\ f.number < gathered.next

\* A full-scan purge removed a table file; a table written under a pending
\* number before the context was filled and one written and installed by a
\* job after that are both in the directory.
C17_Witness ==
  /\ Purged
  /\ job_context.full_scan_candidate_files # {}
  /\ \E f \in Removed : f.type = "table"
  /\ \E n \in TableNumbers :
        /\ \E w \in gathered.pending : w <= n
        /\ n \notin gathered.live
        /\ MakeTableFileName(n) \in job_context.full_scan_candidate_files
        /\ MakeTableFileName(n) \in dir
  /\ \E m \in JobFiles :
        m >= gathered.next /\ m \in live_files /\ MakeTableFileName(m) \in dir
\* ------------------------------------------------------------ C18
BaseListed == LiveBase \cup base_vstorage_.frozen

InSnapshot(f) ==
  f \in vstorage.frozen \/ \E l \in Levels : f \in Range(vstorage.files[l])

\* C18: no step of the builder changes the level lists or the frozen set of
\* the base version, and every file the base version lists keeps its
\* FileMetaData record, a file the new snapshot no longer holds included.
C18_BaseSnapshotUnchanged ==
  [][/\ base_vstorage_' = base_vstorage_
     /\ \A f \in BaseListed : fmeta[f].allocated => fmeta'[f].allocated]_vars

\* A snapshot was saved that holds neither in a level nor in its frozen set
\* a file the base version lists in a level, and the record of that file is
\* there.
C18_Witness ==
  /\ Saved
  /\ \E f \in LiveBase : ~InSnapshot(f) /\ fmeta[f].allocated
\* ------------------------------------------------------------ C20
Listed(f) == \E l \in Levels : f \in Range(vstorage.files[l])

\* C20: in a snapshot SaveTo produced no file is both listed in a level and a
\* member of the frozen set.
C20_FrozenNotListed ==
  Saved => \A f \in vstorage.frozen : ~Listed(f)
\* ------------------------------------------------------------ C21
Staged == status \in {"open", "saved"}

LastEdit == applied[Len(applied)]

DeletesAndAdds(e, l, n) == <<l, n>> \in e.deleted /\ <<l, n>> \in Range(e.added)

\* C21: an edit that deletes and adds the same number on the same level
\* leaves the number in added_files and out of deleted_files of the level
\* (its deletions are staged before its new files), and of two edits the
\* later one decides: add then delete leaves the number deleted, delete then
\* add leaves it added.
C21_DeletesBeforeAdds ==
  (Staged /\ applied # <<>>) =>
    \A l \in Levels : \A n \in Numbers :
      /\ DeletesAndAdds(LastEdit, l, n) =>
            /\ n \in levels_[l].added_files
            /\ n \notin levels_[l].deleted_files
      /\ applied = <<AddEdit(l, n), DelEdit(l, n)>> =>
            /\ n \notin levels_[l].added_files
            /\ n \in levels_[l].deleted_files
      /\ applied = <<DelEdit(l, n), AddEdit(l, n)>> =>
            /\ n \in levels_[l].added_files
            /\ n \notin levels_[l].deleted_files

\* An edit that deletes a file of the base version and adds its number on
\* the same level was applied with the checks running.
C21_Witness ==
  /\ status = "open"
  /\ ChecksRun
  /\ applied # <<>>
  /\ \E l \in Levels : \E n \in Numbers :
        /\ DeletesAndAdds(LastEdit, l, n)
        /\ BaseId(n) \in LiveBase
        /\ fmeta[NewId(l, n)].allocated
\* ------------------------------------------------------------ C22
InBase(n) == \E f \in LiveBase : Num(f) = n

\* The file n is known when (level, n) is deleted: listed in the base
\* version, or staged as added on the level or on a higher one.
Known(l, n) ==
  \/ InBase(n)
  \/ n \in levels_[l].added_files
  \/ \E l2 \in Levels : l2 > l /\ n \in levels_[l2].added_files

DeleteApplied(l, n) == status = "open" /\ applied' = Append(applied, DelEdit(l, n))

UnrefLogged(l, n) ==
  \E e \in unref_log' \ unref_log : e.f = NewId(l, n) /\ e.allocated

\* What a deletion of a known file does: no abort, and a file staged as
\* added on the level is unref'd and taken out of added_files.
KnownDeleteStaged(l, n) ==
  Known(l, n) =>
    /\ status' = "open"
    /\ n \in levels_'[l].deleted_files
    /\ n \in levels_[l].added_files =>
          (n \notin levels_'[l].added_files /\ UnrefLogged(l, n))

\* C22 (as stated): Apply aborts on a deletion of (level, n) exactly when n
\* is not known; a deletion of a known file does not abort and unrefs and
\* removes a file staged as added on the level.
C22_Original ==
  [][\A l \in Levels : \A n \in Numbers :
       DeleteApplied(l, n) =>
         /\ status' = "aborted" <=> ~Known(l, n)
         /\ KnownDeleteStaged(l, n)]_vars

\* C22 (amended): the same, with the abort only where the consistency checks
\* run (a build with assertions, or force_consistency_checks); without them
\* no deletion aborts.
C22_AbortWhenChecked ==
  [][\A l \in Levels : \A n \in Numbers :
       DeleteApplied(l, n) =>
         /\ status' = "aborted" <=> (ChecksRun /\ ~Known(l, n))
         /\ KnownDeleteStaged(l, n)]_vars

\* With the checks running, a file that is not in the base version and was
\* staged as added on level 1 was deleted on level 0 without an abort, or a
\* staged file was deleted on its own level and unref'd.
C22_Witness ==
  /\ status = "open"
  /\ ChecksRun
  /\ \E n \in Numbers :
        /\ ~InBase(n)
        /\ \/ applied = <<AddEdit(1, n), DelEdit(0, n)>>
           \/ applied = <<AddEdit(0, n), DelEdit(0, n)>> /\ unref_log # {}
\* ------------------------------------------------------------ C23
\* References of edit e to file n on the invalid level
InvalidDeletes(e, n) == IF <<InvalidLevel, n>> \in e.deleted THEN 1 ELSE 0

InvalidAdds(e, n) ==
  Cardinality({i \in 1..Len(e.added) : e.added[i] = <<InvalidLevel, n>>})

\* adds minus deletes of n over the first i edits
RECURSIVE Balance(_, _)
Balance(i, n) ==
  IF i = 0 THEN 0
  ELSE Balance(i - 1, n) + InvalidAdds(applied[i], n)
         - InvalidDeletes(applied[i], n)

\* Every add of n has a delete and every delete an add, counted over all the
\* applied edits.
CancelOut == \A n \in Numbers : Balance(Len(applied), n) = 0

\* The same, with each delete after its add: as the references are staged
\* (the deletions of an edit before its new files) a delete finds its number
\* added and not yet deleted, and an add finds it not added or deleted since.
CancelOutInOrder ==
  /\ CancelOut
  /\ \A n \in Numbers : \A i \in 1..Len(applied) :
        /\ Balance(i - 1, n) - InvalidDeletes(applied[i], n) >= 0
        /\ Balance(i - 1, n) - InvalidDeletes(applied[i], n)
              + InvalidAdds(applied[i], n) <= 1

\* C23 (as stated): CheckConsistencyForNumLevels returns true exactly when
\* the references to the invalid level cancel out, wherever the matching add
\* and delete arrive, and Apply does not abort on them.
C23_Original ==
  /\ status = "aborted" => LastEdit \notin InvalidEdits
  /\ CheckConsistencyForNumLevels <=> CancelOut

\* C23 (amended): it returns true exactly when the references cancel out
\* with every delete staged after the add it matches, that is in a later
\* edit; Apply does not abort on them.
C23_TrueWhenCancelledInOrder ==
  /\ status = "aborted" => LastEdit \notin InvalidEdits
  /\ CheckConsistencyForNumLevels <=> CancelOutInOrder

\* An add on the invalid level was cancelled by a delete in the next edit.
C23_Witness ==
  /\ \E n \in Numbers :
        applied = <<AddEdit(InvalidLevel, n), DelEdit(InvalidLevel, n)>>
  /\ CheckConsistencyForNumLevels
  /\ ~ndebug
\* ------------------------------------------------------------ C24
StagedFrozen == UNION {levels_[l].added_frozen_files : l \in Levels}

SaveToSaves == status = "open" /\ status' = "saved"

\* The base frozen files that the slices of the new snapshot still refer to
StillPinned == {f \in base_vstorage_.frozen : fmeta'[f].slice_refs > 0}

\* C24: a SaveTo that returns leaves as frozen set the files staged as moved
\* to frozen on any level and the base frozen files whose slice_refs is above
\* zero at its end; it adds one to refs of each base frozen file it carries
\* and leaves refs of the others as it was.
C24_FrozenSetOfSnapshot ==
  [][SaveToSaves =>
       /\ vstorage'.frozen = StagedFrozen \cup StillPinned
       /\ \A f \in base_vstorage_.frozen :
             fmeta'[f].refs = fmeta[f].refs + (IF f \in StillPinned THEN 1 ELSE 0)]_vars

\* The saved snapshot holds a file moved to frozen by an edit and no longer
\* holds the frozen file of the base, whose last slices went with the file
\* that carried them.
C24_Witness ==
  /\ Saved
  /\ \E f \in base_vstorage_.frozen :
        f \notin vstorage.frozen /\ fmeta[f].slice_refs = 0
  /\ vstorage.frozen # {}
\* ------------------------------------------------------------ C25
\* slice_refs of the parents, were each slice of the deleted files taken off
\* once
RECURSIVE SlicesOf(_, _)
SlicesOf(slices, p) ==
  IF slices = <<>> THEN 0
  ELSE (IF Head(slices).parent_file_meta = p THEN 1 ELSE 0)
         + SlicesOf(Tail(slices), p)

DeletedInBase ==
  {f \in LiveBase : Num(f) \in levels_[BaseLevel(f)].deleted_files}

RECURSIVE SumSlices(_, _)
SumSlices(S, p) ==
  IF S = {} THEN 0
  ELSE LET f == CHOOSE x \in S : TRUE
       IN SlicesOf(fmeta[f].file_slices, p) + SumSlices(S \ {f}, p)

NoSliceStaged == \A l \in Levels : levels_[l].added_file_slices = <<>>

\* A SaveTo that returns does not list a file staged as deleted on its level
\* and, where it attaches no new slice, takes one off slice_refs of the
\* parent for each slice of such a file.
DeletedFileDropped ==
  [][SaveToSaves =>
       /\ \A f \in DeletedInBase : f \notin Range(vstorage'.files[BaseLevel(f)])
       /\ NoSliceStaged =>
             \A p \in AllIds :
               fmeta'[p].slice_refs = fmeta[p].slice_refs - SumSlices(DeletedInBase, p)]_vars

\* C25: across any sequence of Apply and SaveTo calls on a builder,
\* slice_refs of every FileMetaData stays >= 0 (SaveTo takes the slices of a
\* file staged as deleted off their parents once).
C25_SliceRefsNonNegative == \A f \in AllIds : fmeta[f].slice_refs >= 0

\* ------------------------------------------------------------ C26
DeletionsEnabled == disable_delete_obsolete_files_ = 0

\* the call filled the job context with the names of the directory
Scanned == job_context'.full_scan_candidate_files # {}

TimedCase(force, no_full_scan) ==
  ~no_full_scan /\ ~force /\ delete_obsolete_files_period_micros # 0

PeriodReached ==
  now_micros - delete_obsolete_files_last_run_
    >= delete_obsolete_files_period_micros

PeriodPassed ==
  delete_obsolete_files_last_run_ + delete_obsolete_files_period_micros
    < now_micros

ScansWhen(force, no_full_scan, timed) ==
  \A garbage \in BOOLEAN :
    DeletionsEnabled /\ FindObsoleteFiles(force, no_full_scan, garbage) =>
      /\ no_full_scan => ~Scanned
      /\ ~no_full_scan /\ (force \/ delete_obsolete_files_period_micros = 0)
            => Scanned
      /\ TimedCase(force, no_full_scan) => (Scanned <=> timed)
      /\ delete_obsolete_files_last_run_' =
            IF TimedCase(force, no_full_scan) /\ timed THEN now_micros
            ELSE delete_obsolete_files_last_run_

\* C26 as stated: the timed scan is taken iff now - last_run >= period.
C26_Original ==
  [][\A force \in BOOLEAN : \A no_full_scan \in BOOLEAN :
       ScansWhen(force, no_full_scan, PeriodReached)]_vars

\* C26: with deletions enabled FindObsoleteFiles scans the directory never
\* under no_full_scan, else always under force or a period of 0, else iff
\* last_run + period < now, and in that last case only it sets last_run to
\* now.
C26_ScanWhenPeriodPassed ==
  [][\A force \in BOOLEAN : \A no_full_scan \in BOOLEAN :
       ScansWhen(force, no_full_scan, PeriodPassed)]_vars

\* a timed scan was taken, and a call was made while exactly one period
\* had passed since
C26_Witness ==
  /\ DeletionsEnabled
  /\ purge_pc = "found"
  /\ job_context.full_scan_candidate_files = {}
  /\ delete_obsolete_files_last_run_ > 0
  /\ delete_obsolete_files_period_micros > 0
  /\ delete_obsolete_files_last_run_ + delete_obsolete_files_period_micros
       = now_micros

\* ------------------------------------------------------------ C27
RECURSIVE SumSizes(_)
SumSizes(logs) ==
  IF logs = <<>> THEN 0 ELSE Head(logs).size + SumSizes(Tail(logs))

\* a call of FindObsoleteFiles pops alive logs
Reaps ==
  /\ purge_pc \in {"idle", "purged"}
  /\ Len(alive_log_files_') < Len(alive_log_files_)

Popped == SubSeq(alive_log_files_, 1, Len(alive_log_files_) - Len(alive_log_files_'))

Recycled ==
  SubSeq(log_recycle_files', Len(log_recycle_files) + 1, Len(log_recycle_files'))

ReapedOnce ==
  LET to_delete == job_context'.log_delete_files
  IN /\ alive_log_files_' =
          SubSeq(alive_log_files_, Len(Popped) + 1, Len(alive_log_files_))
     /\ \A i \in 1..Len(Popped) : Popped[i].number < job_context'.log_number
     /\ SubSeq(log_recycle_files', 1, Len(log_recycle_files)) = log_recycle_files
     /\ Len(Recycled) + Len(to_delete) = Len(Popped)
     /\ Range(Recycled) \cap Range(to_delete) = {}
     /\ Range(Recycled) \cup Range(to_delete)
          = {Popped[i].number : i \in 1..Len(Popped)}
     /\ Recycled # <<>> => Len(log_recycle_files') <= recycle_log_file_num
     /\ to_delete # <<>> => Len(log_recycle_files') >= recycle_log_file_num
     /\ total_log_size_' = total_log_size_ - SumSizes(Popped)

NoObsoleteAlive ==
  purge_pc \in {"found", "waiting"} =>
    \A i \in 1..Len(alive_log_files_) :
      alive_log_files_[i].number >= job_context.log_number

\* C27: a call that reaps pops every alive log below log_number, puts each
\* in the recycle list (while it holds fewer than recycle_log_file_num) or
\* else in the delete list, and takes its size off total_log_size_; the
\* recycle list never holds more than recycle_log_file_num entries and no
\* alive log below log_number is left by a call.
C27_ReapsObsoleteLogs ==
  /\ [][Reaps => ReapedOnce]_vars
  /\ [](Len(log_recycle_files) <= recycle_log_file_num)
  /\ []NoObsoleteAlive

\* a call found the recycle list full and put an obsolete log in the delete
\* list
C27_Witness ==
  /\ purge_pc = "found"
  /\ recycle_log_file_num > 0
  /\ Len(log_recycle_files) = recycle_log_file_num
  /\ job_context.log_delete_files # <<>>
  /\ Len(alive_log_files_) >= 1
  /\ total_log_size_ = SumSizes(alive_log_files_)

\* ------------------------------------------------------------ C28
\* a step of FindObsoleteFiles: the call, or its going on after the wait
FindSteps ==
  /\ purge_pc \in {"idle", "purged", "waiting"}
  /\ purge_pc' \in {"found", "waiting"}
  /\ purge_pc' # purge_pc \/ Len(logs_') < Len(logs_)

PoppedLogs == SubSeq(logs_, 1, Len(logs_) - Len(logs_'))

\* writers the step released
Released ==
  IF purge_pc' = "waiting" THEN logs_to_free_' - logs_to_free_
  ELSE job_context'.logs_to_free - logs_to_free_

FrontBeingSynced(logs, min_log_number) ==
  /\ logs # <<>>
  /\ Head(logs).number < min_log_number
  /\ Head(logs).getting_synced

NeverFreesSyncing ==
  [][FindSteps =>
       /\ Len(logs_') <= Len(logs_)
       /\ logs_' = SubSeq(logs_, Len(PoppedLogs) + 1, Len(logs_))
       /\ \A i \in 1..Len(PoppedLogs) : ~PoppedLogs[i].getting_synced
       /\ Released = Len(PoppedLogs)
       /\ purge_pc' = "waiting" =>
             FrontBeingSynced(logs_', job_context'.log_number)
       /\ purge_pc' = "found" =>
             ~FrontBeingSynced(logs_', job_context'.log_number)]_vars

\* C28: FindObsoleteFiles releases the writer of and pops only logs that are
\* not being synced; it waits while the front of logs_ is an obsolete log
\* being synced, and with every sync that began completing, the call
\* returns.
C28_WaitsForSync ==
  /\ NeverFreesSyncing
  /\ (purge_pc = "waiting") ~> (purge_pc = "found")

\* the call waits on a sync that began while the db ran: the front of logs_
\* is obsolete and being synced, and still in the deque
C28_Witness ==
  /\ purge_pc = "waiting"
  /\ syncs_started > 0
  /\ FrontBeingSynced(logs_, job_context.log_number)
  /\ Len(logs_) >= 2

\* ------------------------------------------------------------ C29
OldInfoLogs ==
  {f \in CandidateFiles(job_context) : f.type = "info_log" /\ f.number # 0}

\* the first k of the old info logs in ascending name order
Oldest(k) ==
  {f \in OldInfoLogs :
     Cardinality({g \in OldInfoLogs : g.number < f.number}) < k}

DeletedInfoLogs == {f \in deleted : f.type = "info_log"}

\* C29 as stated: more than keep_log_file_num old info logs lose the oldest
\* count - keep_log_file_num, no more than keep_log_file_num lose none.
C29_Original ==
  PurgeRan =>
    DeletedInfoLogs =
      IF OldInfoLogCount > keep_log_file_num
      THEN Oldest(OldInfoLogCount - keep_log_file_num) ELSE {}

\* C29: when the number of old info logs collected is at least
\* keep_log_file_num, exactly the oldest count - keep_log_file_num + 1 of
\* them in ascending name order are deleted, leaving keep_log_file_num - 1;
\* when it is below keep_log_file_num none is deleted.
C29_KeepsOneLess ==
  PurgeRan =>
    /\ DeletedInfoLogs =
         IF OldInfoLogCount # 0 /\ OldInfoLogCount >= keep_log_file_num
         THEN Oldest(OldInfoLogCount - keep_log_file_num + 1) ELSE {}
    /\ OldInfoLogCount >= keep_log_file_num =>
         Cardinality(OldInfoLogs \ deleted) = keep_log_file_num - 1

\* a purge over three old info logs with keep_log_file_num 2 removed the two
\* oldest
C29_Witness ==
  /\ PurgeRan
  /\ OldInfoLogCount = 3
  /\ keep_log_file_num = 2
  /\ Cardinality(DeletedInfoLogs) = 2

\* ------------------------------------------------------------ C30
\* the keys of the parent file the slice covers
InSlice(k) ==
  /\ IF file_slice_.is_contain_smallest
     THEN Compare(k, file_slice_.smallest) >= 0
     ELSE Compare(k, file_slice_.smallest) > 0
  /\ Compare(k, file_slice_.largest) <= 0

SliceKeys == SelectSeq(file_keys, InSlice)

StrictlyIncreasing(keys) ==
  \A i \in 1..Len(keys) : \A j \in 1..Len(keys) :
    i < j => Compare(keys[i], keys[j]) < 0

PastLargest ==
  /\ FileIterValid(file_keys, file_iter_)
  /\ Compare(file_keys[file_iter_], file_slice_.largest) > 0

\* C30: a FileSliceIterator traversed with Next from its construction until
\* Valid() is false reads exactly the keys of the parent file from smallest
\* (or after it, when is_contain_smallest is false) to largest, each once
\* and in strictly increasing internal-key order; Valid() is false when the
\* underlying iterator is past largest.
C30_VisitsSliceKeys ==
  /\ iter_pc # "aborted"
  /\ iter_pc \in {"constructed", "done"} =>
       /\ visited = SubSeq(SliceKeys, 1, Len(visited))
       /\ StrictlyIncreasing(visited)
       /\ PastLargest => ~Valid(file_keys, file_slice_, file_iter_)
  /\ iter_pc = "done" => visited = SliceKeys

\* a traversal ended past largest, having stepped over the excluded smallest
\* key and read two keys
C30_Witness ==
  /\ iter_pc = "done"
  /\ ~file_slice_.is_contain_smallest
  /\ \E i \in 1..Len(file_keys) : file_keys[i] = file_slice_.smallest
  /\ Len(visited) = 2
  /\ PastLargest

\* ------------------------------------------------------------ C33
\* C33: where the slice holds a key of the parent file, SeekToLast leaves the
\* iterator valid and on the last key of the file inside the slice, also
\* when largest is no key of the file.
C33_SeekToLastOnLastKey ==
  (iter_pc = "at_last" /\ SliceKeys # <<>>) =>
    /\ Valid(file_keys, file_slice_, file_iter_)
    /\ file_keys[file_iter_] = SliceKeys[Len(SliceKeys)]

\* ------------------------------------------------------------ C32
\* C32: after any sequence of Apply calls no file number is in both
\* deleted_files and added_files of a valid level.
C32_DeletedAndAddedDisjoint ==
  \A l \in Levels :
    levels_[l].deleted_files \cap levels_[l].added_files = {}

\* a number was staged as deleted by one edit and as added by the next
C32_Witness ==
  /\ status = "open"
  /\ Len(applied) = 2
  /\ \E l \in Levels : \E n \in Numbers :
        /\ <<l, n>> \in applied[1].deleted
        /\ <<l, n>> \in Range(applied[2].added)
        /\ n \in levels_[l].added_files
        /\ n \notin levels_[l].deleted_files

\* ------------------------------------------------------------ C31
Newest(logs) == logs[Len(logs)].number

\* C31: FindObsoleteFiles never reaps the current WAL: whatever log number
\* MinLogNumberToKeep returned, the alive-log deque and logs_ are not empty
\* after the reaping step and still end with the current WAL.
C31_CurrentWalStays ==
  /\ alive_log_files_ # <<>> /\ logs_ # <<>>
  /\ Newest(alive_log_files_) = cur_log
  /\ Newest(logs_) = cur_log
  /\ purge_pc \in {"found", "waiting"} => job_context.log_number <= cur_log

\* a call with the current WAL as the log to keep reaped every older WAL
C31_Witness ==
  /\ purge_pc = "found"
  /\ job_context.log_number = cur_log
  /\ job_context.log_delete_files # <<>>
  /\ Len(alive_log_files_) = 1
  /\ Len(logs_) = 1
====
